---- MODULE Spec2Model ----
(***************************************************************************)
(* A model of generator.py (CityGenerator): the data-acquisition layer    *)
(* (_retry_request, download_osm_data, _fetch_elevation_point,            *)
(* download_terrain_data), create_terrain, get_elevation_at_xy, the      *)
(* create_* stages with their mesh builders, generate() and its callers.  *)
(*                                                                         *)
(* Times slept are kept in milliseconds (request_delay = 0.2 s = 200 ms), *)
(* request timeouts in seconds.                                            *)
(***************************************************************************)
EXTENDS Integers, Sequences, FiniteSets, TLC

VARIABLES
    entry,            \* the operation the caller started: "retry", "osm", "terrain",
                      \* "grid", "lookup", "mesh", "stages", "execute", "main"
    max_retries,      \* self.max_retries
    backoff_factor,   \* self.backoff_factor
    script,           \* the network's behaviour per grid point (<<>>: unconstrained)
    mirrors,          \* the network's behaviour per Overpass mirror (<<>>: unconstrained)
    lat_dm,           \* lat_meters of download_terrain_data, in decimetres
    lon_dm,           \* lon_meters of download_terrain_data, in decimetres
    errors,           \* self.errors
    warnings,         \* self.warnings
    \* ---- the frame of _retry_request
    rpc,              \* "idle", "loop", "inflight", "returned", "raised"
    op,               \* operation_name
    attempt,          \* the loop variable
    rresult,          \* "pending", "response", "none", "raised"
    inflight,         \* the requests handed to request_func and not yet answered
    calls,            \* invocations of request_func by the current call
    trace,            \* sleeps and requests of the current call, in order
    last,             \* outcome of the latest invocation of the current call
    allRetryable,     \* every invocation of the current call ended in a retryable fault
    errLen0,          \* Len(errors) when the current call started
    \* ---- the frame of download_osm_data
    opc,              \* "idle", "loop", "call", "done"
    server_index,     \* 1-based index of the mirror being tried
    last_error,       \* last_error
    contacted,        \* the mirrors a _retry_request was issued for, in order
    mirror_fate,      \* per mirror: what its _retry_request and its document were
    osm_result,       \* the returned document
    \* ---- the frame of download_terrain_data
    tpc,              \* "idle", "start", "loop", "call", "done", "terrain_created"
    grid_size,
    gi,
    gj,
    elevation_data,   \* the local array elevation_data
    successful_downloads,
    failed_downloads,
    points_processed,
    first_failure_logged,
    requested,        \* the grid points a _retry_request was issued for, in order
    terrain_result,   \* the returned array
    stored_grid,      \* self.elevation_data
    vertices_z,       \* the z of the vertices create_terrain emits
    \* ---- the frame of generate() and of the create_* stages
    gpc,              \* the statement generate(), or its caller, has reached
    doc_ways,         \* the ways a well-formed Overpass document carries
    ei,               \* the loop index of the running create_* stage
    meshes,           \* the meshes handed to from_pydata, in order
    reported,         \* what the final report of generate() read
    margs,            \* the arguments of a direct call of a mesh builder
    lookup            \* the frame of get_elevation_at_xy

retryVars == <<rpc, op, attempt, rresult, inflight, calls, trace, last, allRetryable, errLen0>>
osmVars == <<opc, server_index, last_error, contacted, mirror_fate, osm_result>>
terrainVars == <<tpc, grid_size, gi, gj, elevation_data, successful_downloads,
                 failed_downloads, points_processed, first_failure_logged, requested,
                 terrain_result, stored_grid, vertices_z>>
configVars == <<entry, max_retries, backoff_factor, script, mirrors, lat_dm, lon_dm>>
genVars == <<gpc, doc_ways, ei, meshes, reported, margs, lookup>>
vars == <<configVars, errors, warnings, retryVars, osmVars, terrainVars, genVars>>

----------------------------------------------------------------------------
(* Bounds of the model *)

MaxRetriesBound == 3
MaxBackoff == 2
PatLen == 2
\* grid steps are divided into 2 * HalfTicksPerCell ticks
HalfTicksPerCell == 1

(* Program constants *)

initial_timeout == 30
request_delay_ms == 200
rate_limit_step == 10
gateway_extra_wait == 5
NumServers == 3
MinGridSize == 20
MaxGridSize == 100
default_max_retries == 3
default_backoff_factor == 2

RECURSIVE Pow(_, _)
Pow(b, e) == IF e <= 0 THEN 1 ELSE b * Pow(b, e - 1)

----------------------------------------------------------------------------
(* What one invocation of request_func followed by raise_for_status can do *)

Statuses == {400, 404, 429, 500, 503, 504}

Out(k, s) == [kind |-> k, status |-> s]
NoOutcome == Out("nothing", 0)
OkOutcome == Out("ok", 200)

Outcomes ==
    {OkOutcome, Out("Timeout", 0), Out("ConnectionError", 0), Out("RequestException", 0),
     Out("Exception", 0), Out("HTTPErrorNoResponse", 0)}
    \cup {Out("HTTPError", s) : s \in Statuses}

\* the faults the retry policy treats as transient
IsRetryable(o) ==
    \/ o.kind \in {"Timeout", "ConnectionError"}
    \/ o.kind = "HTTPError" /\ (o.status = 429 \/ o.status >= 500)

Op(k, a, b) == [kind |-> k, a |-> a, b |-> b]
NoOp == Op("none", 0, 0)

Err(o, m, c) == [op |-> o, msg |-> m, code |-> c]
Warn(m, a, b, d) == [msg |-> m, a |-> a, b |-> b, detail |-> d]
EvSleep(ms) == [ev |-> "sleep", v |-> ms]
EvRequest(t) == [ev |-> "request", v |-> t]

(* What response.json() and the code reading the document can meet *)

Body(sh, n) == [shape |-> sh, n |-> n]
NoBody == Body("none", 0)

\* Overpass documents: an object with n elements, an object without the
\* 'elements' key, text that is no JSON, JSON that is no object (a list, null),
\* and an object whose 'elements' has a length but holds something that is no
\* OSM element ({"elements": [{"id": 1}]}, {"elements": "ab"})
OsmBodies ==
    {Body("elements", 0), Body("elements", 2), Body("no_elements_key", 0),
     Body("json_error", 0), Body("not_object", 0), Body("malformed_elements", 1)}

\* elevation documents: {results:[{elevation: n}]}, no or empty results, text
\* that is no JSON, results[0] without 'elevation' (KeyError), and documents on
\* which the lookups raise TypeError (null, a number, results[0] not an object)
ElevBodies ==
    {Body("elevation", 0), Body("elevation", 5), Body("no_results", 0),
     Body("json_error", 0), Body("key_error", 0), Body("type_error", 0)}

(* The network as seen by download_terrain_data: one behaviour per grid point, *)
(* repeated with the period of the script.  net[k] answers attempt k-1, the    *)
(* last entry answers every later attempt.                                     *)

Behaviour(n, b) == [net |-> n, body |-> b]

PointBehaviours ==
    {Behaviour(<<OkOutcome>>, Body("elevation", 0)),
     Behaviour(<<OkOutcome>>, Body("elevation", 5)),
     Behaviour(<<Out("Timeout", 0)>>, NoBody),
     Behaviour(<<Out("HTTPError", 404)>>, NoBody),
     Behaviour(<<Out("HTTPError", 503), OkOutcome>>, Body("elevation", 5)),
     Behaviour(<<OkOutcome>>, Body("no_results", 0)),
     Behaviour(<<OkOutcome>>, Body("json_error", 0)),
     Behaviour(<<OkOutcome>>, Body("type_error", 0)),
     Behaviour(<<Out("HTTPErrorNoResponse", 0)>>, NoBody)}

PointNumber(i, j, g) == i * (g + 1) + j
BehaviourAt(sc, i, j, g) == sc[(PointNumber(i, j, g) % Len(sc)) + 1]
AnswerOf(b, a) == b.net[IF a + 1 <= Len(b.net) THEN a + 1 ELSE Len(b.net)]

\* the documents a response can carry to _fetch_elevation_point
OfferedBodies ==
    IF script = <<>> THEN ElevBodies
    ELSE {BehaviourAt(script, gi, gj, grid_size).body}

\* the behaviour of mirror k (1-based), repeated with the period of mirrors
MirrorAt(k) == mirrors[((k - 1) % Len(mirrors)) + 1]

\* the documents a response can carry to download_osm_data
OfferedOsmBodies ==
    IF mirrors = <<>> THEN OsmBodies
    ELSE {MirrorAt(server_index).body}

\* the outcomes the network can give to the request now in flight: a request
\* of download_osm_data (opc = "call") or of _fetch_elevation_point
Offered ==
    IF opc = "call"
    THEN IF mirrors = <<>> THEN Outcomes ELSE {AnswerOf(MirrorAt(server_index), attempt)}
    ELSE IF script = <<>> THEN Outcomes
    ELSE {AnswerOf(BehaviourAt(script, gi, gj, grid_size), attempt)}

----------------------------------------------------------------------------
(* _retry_request *)

\* entering the function: the for loop starts at attempt 0
StartRetry(name) ==
    /\ rpc' = "loop"
    /\ op' = name
    /\ attempt' = 0
    /\ rresult' = "pending"
    /\ calls' = 0
    /\ trace' = <<>>
    /\ last' = NoOutcome
    /\ allRetryable' = TRUE
    /\ errLen0' = Len(errors)
    /\ inflight' = inflight

\* (mutation of LoopOver: a loop bound that is one too far)
LoopOverOffByOne(a) == a > max_retries

\* for attempt in range(self.max_retries): the loop is over
LoopOver(a) == a >= max_retries

IsLastAttempt(a) == a = max_retries - 1

\* (mutation of TimeoutOf: the timeout grows linearly with the attempt)
TimeoutLinear(a) == initial_timeout * (1 + a * (backoff_factor - 1))

\* timeout = self.initial_timeout * (self.backoff_factor ** attempt)
TimeoutOf(a) == initial_timeout * Pow(backoff_factor, a)

\* (mutation of TopWait: the pacing delay is slept on every attempt)
TopWaitPacedEveryAttempt(a) ==
    request_delay_ms + (IF a = 0 THEN 0 ELSE 1000 * Pow(backoff_factor, a - 1))

\* the sleep before request_func: request_delay on attempt 0, else
\* backoff_factor ** (attempt - 1) seconds
TopWait(a) == IF a = 0 THEN request_delay_ms ELSE 1000 * Pow(backoff_factor, a - 1)

\* the loop body up to and including the call of request_func
RetrySend ==
    /\ rpc = "loop"
    /\ ~LoopOver(attempt)
    /\ trace' = trace \o <<EvSleep(TopWait(attempt)), EvRequest(TimeoutOf(attempt))>>
    /\ inflight' = inflight \cup {[op |-> op, attempt |-> attempt]}
    /\ calls' = calls + 1
    /\ rpc' = "inflight"
    /\ UNCHANGED <<op, attempt, rresult, last, allRetryable, errLen0>>
    /\ UNCHANGED <<configVars, genVars, errors, warnings, osmVars, terrainVars>>

\* the loop ran out: the final return None
RetryExhausted ==
    /\ rpc = "loop"
    /\ LoopOver(attempt)
    /\ rpc' = "returned"
    /\ rresult' = "none"
    /\ UNCHANGED <<op, attempt, inflight, calls, trace, last, allRetryable, errLen0>>
    /\ UNCHANGED <<configVars, genVars, errors, warnings, osmVars, terrainVars>>

\* the ways an iteration ends
ReturnWith(r) == rpc' = "returned" /\ rresult' = r /\ attempt' = attempt
NextIteration == rpc' = "loop" /\ rresult' = rresult /\ attempt' = attempt + 1
Escapes == rpc' = "raised" /\ rresult' = "raised" /\ attempt' = attempt

\* (mutation of AppendIfLast: the error is recorded on every failed attempt)
AppendAlways(e) == errors' = Append(errors, e)

\* (mutation of AppendIfLast: the error replaces the list)
AppendOverwrites(e) == errors' = IF IsLastAttempt(attempt) THEN <<e>> ELSE errors

\* (mutation of AppendIfLast: every attempt but the first records its error)
AppendUnlessFirst(e) == errors' = IF attempt > 0 THEN Append(errors, e) ELSE errors

\* if attempt == self.max_retries - 1: self.errors.append(error_msg)
AppendIfLast(e) == errors' = IF IsLastAttempt(attempt) THEN Append(errors, e) ELSE errors

\* (mutation of FailFast: the threshold of the status test is 400, not 500)
FailFastBelow400(s) == s < 400 /\ s # 429

\* don't retry on client errors (4xx) except for rate limiting
FailFast(s) == s < 500 /\ s # 429

\* except HTTPError as e
OnHTTPError(s) ==
    IF s = 429 THEN
        IF attempt < max_retries - 1
        THEN /\ trace' = Append(trace, EvSleep(1000 * rate_limit_step * (attempt + 1)))
             /\ errors' = errors
             /\ NextIteration
        ELSE /\ errors' = Append(errors, Err(op, "HTTP error - Rate limit exceeded after all retries", s))
             /\ trace' = trace
             /\ ReturnWith("none")
    ELSE IF FailFast(s) THEN
        /\ errors' = Append(errors, Err(op, "HTTP error", s))
        /\ trace' = trace
        /\ ReturnWith("none")
    ELSE IF s = 504 /\ attempt < max_retries - 1 THEN
        /\ trace' = Append(trace, EvSleep(1000 * (Pow(backoff_factor, attempt) + gateway_extra_wait)))
        /\ errors' = errors
        /\ NextIteration
    ELSE
        /\ AppendIfLast(Err(op, "HTTP error", s))
        /\ trace' = trace
        /\ NextIteration

\* (mutation of OnUnexpected: handled like RequestException, retried)
OnUnexpectedRetried ==
    /\ AppendIfLast(Err(op, "Unexpected error", 0))
    /\ NextIteration
    /\ UNCHANGED trace

\* except Exception as e: the error is appended on any attempt, return None
OnUnexpected ==
    /\ errors' = Append(errors, Err(op, "Unexpected error", 0))
    /\ ReturnWith("none")
    /\ UNCHANGED trace

\* what the try block and its except clauses do with the answer o
Handle(o) ==
    CASE o.kind = "ok" ->
            /\ ReturnWith("response")
            /\ UNCHANGED <<errors, trace>>
      [] o.kind = "Timeout" ->
            /\ AppendIfLast(Err(op, "Request timed out", TimeoutOf(attempt)))
            /\ NextIteration
            /\ UNCHANGED trace
      [] o.kind = "ConnectionError" ->
            /\ AppendIfLast(Err(op, "Connection error", 0))
            /\ NextIteration
            /\ UNCHANGED trace
      [] o.kind = "HTTPError" -> OnHTTPError(o.status)
      [] o.kind = "HTTPErrorNoResponse" ->
            \* e.response is None: e.response.status_code raises AttributeError
            \* inside the except clause, which no clause of this try catches
            /\ Escapes
            /\ UNCHANGED <<errors, trace>>
      [] o.kind = "RequestException" ->
            /\ AppendIfLast(Err(op, "Request failed", 0))
            /\ NextIteration
            /\ UNCHANGED trace
      [] o.kind = "Exception" -> OnUnexpected

\* request_func answers (or raises), raise_for_status runs, the handlers run
RetryReceive ==
    /\ rpc = "inflight"
    /\ \E o \in Offered :
          /\ Handle(o)
          /\ last' = o
          /\ allRetryable' = (allRetryable /\ IsRetryable(o))
    /\ inflight' = inflight \ {[op |-> op, attempt |-> attempt]}
    /\ UNCHANGED <<op, calls, errLen0>>
    /\ UNCHANGED <<configVars, genVars, warnings, osmVars, terrainVars>>

----------------------------------------------------------------------------
(* Frames that are not running *)

EmptyGrid == <<>>
NoLastError == [msg |-> "None", server |-> 0]
LastError(m, k) == [msg |-> m, server |-> k]
Document(k, b) == [server |-> k, body |-> b]
\* what a mirror gave: got is "untried", "none" or "response", last the outcome of
\* the final invocation, body the document of the response
Fate(g, o, b) == [got |-> g, last |-> o, body |-> b]
Untried == Fate("untried", NoOutcome, NoBody)

OsmIdle ==
    /\ opc = "idle"
    /\ server_index = 0
    /\ last_error = NoLastError
    /\ contacted = <<>>
    /\ mirror_fate = [k \in 1..NumServers |-> Untried]
    /\ osm_result = Document(0, NoBody)

TerrainIdle ==
    /\ tpc = "idle"
    /\ grid_size = 0
    /\ gi = 0
    /\ gj = 0
    /\ elevation_data = EmptyGrid
    /\ successful_downloads = 0
    /\ failed_downloads = 0
    /\ points_processed = 0
    /\ first_failure_logged = FALSE
    /\ requested = <<>>
    /\ terrain_result = EmptyGrid
    /\ stored_grid = EmptyGrid
    /\ vertices_z = <<>>

NoReport == [read |-> FALSE, warnings |-> <<>>, errors |-> <<>>]
NoArgs == [coords |-> <<>>, height |-> 0, highway |-> "none"]
\* x and y are the arguments, cells the indices read from elevation_data,
\* i_frac and j_frac the interpolation fractions and z the value returned
NoLookup == [pc |-> "idle", x |-> 0, y |-> 0, cells |-> {}, i_frac |-> 0, j_frac |-> 0, z |-> 0]

GenerateIdle ==
    /\ gpc = "idle"
    /\ doc_ways = <<>>
    /\ ei = 0
    /\ meshes = <<>>
    /\ reported = NoReport
    /\ margs = NoArgs
    /\ lookup = NoLookup

RetryFrame(pc, name) ==
    /\ rpc = pc
    /\ op = name
    /\ attempt = 0
    /\ rresult = "pending"
    /\ inflight = {}
    /\ calls = 0
    /\ trace = <<>>
    /\ last = NoOutcome
    /\ allRetryable = TRUE
    /\ errLen0 = 0

RetryIdle == RetryFrame("idle", NoOp)

----------------------------------------------------------------------------
(* download_osm_data *)

\* for server_index, overpass_url in enumerate(self.overpass_servers, 1):
\* the call of _retry_request for the next mirror
OsmTry ==
    /\ opc = "loop"
    /\ server_index <= NumServers
    /\ StartRetry(Op("OSM data download from server", server_index, 0))
    /\ contacted' = Append(contacted, server_index)
    /\ opc' = "call"
    /\ UNCHANGED <<server_index, last_error, mirror_fate, osm_result>>
    /\ UNCHANGED <<configVars, genVars, errors, warnings, terrainVars>>

\* elements_count = len(data.get('elements', []))
ElementsCount(b) == IF b.shape \in {"elements", "malformed_elements"} THEN b.n ELSE 0

\* response.json() and the counting of the elements go through
Parses(b) == b.shape \in {"elements", "no_elements_key", "malformed_elements"}

\* (mutation of OsmAdvance: every failed mirror adds a warning of its own)
OsmAdvanceWarning(err) ==
    /\ last_error' = err
    /\ server_index' = server_index + 1
    /\ opc' = "loop"
    /\ warnings' = Append(warnings, Warn(err.msg, err.server, 0, ""))
    /\ UNCHANGED osm_result

\* (mutation of OsmAdvance: the loop skips the mirror after a failed one)
OsmAdvanceSkipping(err) ==
    /\ last_error' = err
    /\ server_index' = server_index + 2
    /\ opc' = "loop"
    /\ UNCHANGED <<osm_result, warnings>>

\* the next iteration of the loop over the mirrors
OsmAdvance(err) ==
    /\ last_error' = err
    /\ server_index' = server_index + 1
    /\ opc' = "loop"
    /\ UNCHANGED <<osm_result, warnings>>

ZeroElementsWarning == Warn("OSM data download succeeded but returned 0 elements", 0, 0, "")

\* (mutation of OsmOnResponse: a document without elements counts as a failure
\* of the mirror)
OsmOnResponseEmptyFails(b) ==
    IF Parses(b) /\ ElementsCount(b) > 0 THEN
        /\ osm_result' = Document(server_index, b)
        /\ opc' = "done"
        /\ UNCHANGED <<server_index, last_error, warnings>>
    ELSE
        OsmAdvance(LastError("Failed to parse OSM data JSON response", server_index))

\* if response is not None: try: ... return data
OsmOnResponse(b) ==
    IF Parses(b) THEN
        /\ warnings' = IF ElementsCount(b) = 0
                        THEN Append(warnings, ZeroElementsWarning)
                        ELSE warnings
        /\ osm_result' = Document(server_index, b)
        /\ opc' = "done"
        /\ UNCHANGED <<server_index, last_error>>
    ELSE IF b.shape = "json_error" THEN
        OsmAdvance(LastError("Failed to parse OSM data JSON response", server_index))
    ELSE
        OsmAdvance(LastError("Unexpected error processing OSM data", server_index))

\* _retry_request has returned for the mirror server_index
OsmAfterRetry ==
    /\ opc = "call"
    /\ rpc = "returned"
    /\ IF rresult = "response"
       THEN \E b \in OfferedOsmBodies :
                /\ OsmOnResponse(b)
                /\ mirror_fate' = [mirror_fate EXCEPT ![server_index] = Fate("response", last, b)]
       ELSE /\ OsmAdvance(LastError("failed after all retries", server_index))
            /\ mirror_fate' = [mirror_fate EXCEPT ![server_index] = Fate("none", last, NoBody)]
    /\ rpc' = "idle"
    /\ UNCHANGED <<op, attempt, rresult, inflight, calls, trace, last, allRetryable, errLen0>>
    /\ UNCHANGED <<contacted, configVars, genVars, errors, terrainVars>>

\* the exception that left _retry_request leaves download_osm_data too
OsmEscape ==
    /\ opc = "call"
    /\ rpc = "raised"
    /\ opc' = "raised"
    /\ rpc' = "idle"
    /\ UNCHANGED <<op, attempt, rresult, inflight, calls, trace, last, allRetryable, errLen0>>
    /\ UNCHANGED <<server_index, last_error, contacted, mirror_fate, osm_result>>
    /\ UNCHANGED <<configVars, genVars, errors, warnings, terrainVars>>

\* f"Failed to download OSM data from all {len(self.overpass_servers)} servers.
\* Using empty dataset." + f" Last error: {last_error}"
AllFailedWarning(err) ==
    Warn("Failed to download OSM data from all servers. Using empty dataset.",
         NumServers, err.server, err.msg)

\* {'elements': []}, made by download_osm_data itself (server 0)
EmptyDataset == Document(0, Body("elements", 0))

\* all servers failed: the aggregate warning and the empty dataset
OsmAllFailed ==
    /\ opc = "loop"
    /\ server_index > NumServers
    /\ warnings' = Append(warnings, AllFailedWarning(last_error))
    /\ osm_result' = EmptyDataset
    /\ opc' = "done"
    /\ UNCHANGED <<server_index, last_error, contacted, mirror_fate>>
    /\ UNCHANGED <<configVars, genVars, errors, retryVars, terrainVars>>

----------------------------------------------------------------------------
(* download_terrain_data, _fetch_elevation_point and create_terrain *)

\* Python's int(): truncation toward zero
TruncDiv(a, b) == IF a >= 0 THEN a \div b ELSE -((-a) \div b)
Min2(a, b) == IF a <= b THEN a ELSE b
Max2(a, b) == IF a >= b THEN a ELSE b

\* (mutation of GridSizeOf: the cap of 100 is applied to the latitude only)
GridSizeLonUncapped(latdm, londm) ==
    Max2(Max2(Min2(TruncDiv(latdm, 5), MaxGridSize), TruncDiv(londm, 5)), MinGridSize)

\* grid_size_lat = min(int(lat_meters / 0.5), 100), the same for lon,
\* grid_size = max(grid_size_lat, grid_size_lon, 20)
GridSizeOf(latdm, londm) ==
    Max2(Max2(Min2(TruncDiv(latdm, 5), MaxGridSize), Min2(TruncDiv(londm, 5), MaxGridSize)),
         MinGridSize)

\* np.zeros((grid_size + 1, grid_size + 1))
Zeros(g) == [i \in 0..g |-> [j \in 0..g |-> 0]]

\* total_points = (grid_size + 1) * (grid_size + 1)
TotalPoints(g) == (g + 1) * (g + 1)

\* the function up to the try block
TerrainBegin ==
    /\ tpc = "start"
    /\ grid_size' = GridSizeOf(lat_dm, lon_dm)
    /\ elevation_data' = Zeros(GridSizeOf(lat_dm, lon_dm))
    /\ successful_downloads' = 0
    /\ failed_downloads' = 0
    /\ points_processed' = 0
    /\ first_failure_logged' = FALSE
    /\ gi' = 0
    /\ gj' = 0
    /\ tpc' = "loop"
    /\ UNCHANGED <<requested, terrain_result, stored_grid, vertices_z>>
    /\ UNCHANGED <<configVars, genVars, errors, warnings, retryVars, osmVars>>

\* for i in range(grid_size + 1): for j in range(grid_size + 1):
\* _fetch_elevation_point(lat, lon, i, j) calls _retry_request
TerrainFetch ==
    /\ tpc = "loop"
    /\ gi <= grid_size
    /\ StartRetry(Op("Terrain elevation point", gi, gj))
    /\ requested' = Append(requested, <<gi, gj>>)
    /\ tpc' = "call"
    /\ UNCHANGED <<grid_size, gi, gj, elevation_data, successful_downloads, failed_downloads,
                   points_processed, first_failure_logged, terrain_result, stored_grid,
                   vertices_z>>
    /\ UNCHANGED <<configVars, genVars, errors, warnings, osmVars>>

\* what _fetch_elevation_point returns: (elevation, success)
Point(e, ok) == [elevation |-> e, success |-> ok]

\* the lookups of _fetch_elevation_point raise an exception that its except
\* clause (json.JSONDecodeError, KeyError, IndexError) does not name
FetchRaises(r, b) == r = "response" /\ b.shape = "type_error"

\* the tuple _fetch_elevation_point returns for the response (or None) it got
FetchElevationPoint(r, b) ==
    IF r = "response" /\ b.shape = "elevation" THEN Point(b.n, TRUE) ELSE Point(0, FALSE)

\* the inner and outer loop variables after this iteration
NextJ(j, g) == IF j < g THEN j + 1 ELSE 0
NextI(i, j, g) == IF j < g THEN i ELSE i + 1

\* the body of the loops after _fetch_elevation_point has returned
TerrainStore(pt) ==
    /\ elevation_data' = [elevation_data EXCEPT ![gi][gj] = pt.elevation]
    /\ successful_downloads' = successful_downloads + (IF pt.success THEN 1 ELSE 0)
    /\ failed_downloads' = failed_downloads + (IF pt.success THEN 0 ELSE 1)
    /\ first_failure_logged' = (first_failure_logged \/ ~pt.success)
    /\ warnings' = IF ~pt.success /\ ~first_failure_logged
                    THEN Append(warnings, Warn("Invalid elevation data format at point", gi, gj, ""))
                    ELSE warnings
    /\ points_processed' = points_processed + 1
    /\ gj' = NextJ(gj, grid_size)
    /\ gi' = NextI(gi, gj, grid_size)
    /\ tpc' = "loop"
    /\ UNCHANGED <<errors, terrain_result, stored_grid>>

\* except Exception as e: the critical error and the flat fallback grid
TerrainCritical ==
    /\ errors' = Append(errors, Err(NoOp, "Critical error during terrain data download", 0))
    /\ stored_grid' = Zeros(grid_size)
    /\ terrain_result' = Zeros(grid_size)
    /\ tpc' = "done"
    /\ UNCHANGED <<warnings, gi, gj, elevation_data, successful_downloads, failed_downloads,
                   points_processed, first_failure_logged>>

\* _retry_request has returned to _fetch_elevation_point
TerrainAfterRetry ==
    /\ tpc = "call"
    /\ rpc = "returned"
    /\ \E b \in OfferedBodies :
          IF FetchRaises(rresult, b)
          THEN TerrainCritical
          ELSE TerrainStore(FetchElevationPoint(rresult, b))
    /\ rpc' = "idle"
    /\ UNCHANGED <<op, attempt, rresult, inflight, calls, trace, last, allRetryable, errLen0>>
    /\ UNCHANGED <<grid_size, requested, vertices_z, configVars, genVars, osmVars>>

\* the exception that left _retry_request is caught by download_terrain_data
TerrainEscape ==
    /\ tpc = "call"
    /\ rpc = "raised"
    /\ TerrainCritical
    /\ rpc' = "idle"
    /\ UNCHANGED <<op, attempt, rresult, inflight, calls, trace, last, allRetryable, errLen0>>
    /\ UNCHANGED <<grid_size, requested, vertices_z, configVars, genVars, osmVars>>

\* elevation_data.max() == 0 and elevation_data.min() == 0
AllZero(grid, g) == \A i \in 0..g : \A j \in 0..g : grid[i][j] = 0

FailedWarning(f, total) == Warn("Failed to download elevation for points (using 0m elevation as fallback)", f, total, "")
AllZeroWarning == Warn("All elevation data is 0. Terrain will be flat.", 0, 0, "")

\* the loops are over: the summary, the two warnings, the stores, the return
TerrainSummary ==
    /\ tpc = "loop"
    /\ gi > grid_size
    /\ warnings' = (IF failed_downloads > 0
                     THEN Append(warnings, FailedWarning(failed_downloads, TotalPoints(grid_size)))
                     ELSE warnings)
                    \o (IF AllZero(elevation_data, grid_size) THEN <<AllZeroWarning>> ELSE <<>>)
    /\ stored_grid' = elevation_data
    /\ terrain_result' = elevation_data
    /\ tpc' = "done"
    /\ UNCHANGED <<grid_size, gi, gj, elevation_data, successful_downloads, failed_downloads,
                   points_processed, first_failure_logged, requested, vertices_z>>
    /\ UNCHANGED <<configVars, genVars, errors, retryVars, osmVars>>

\* z = elevation_data[i, j] * 0.1, kept in millimetres
VertexZ(e) == e * 100

\* the z of the vertices create_terrain emits, row by row
TerrainVerticesZ(grid, g) ==
    [k \in 1..TotalPoints(g) |-> VertexZ(grid[(k - 1) \div (g + 1)][(k - 1) % (g + 1)])]

\* create_terrain(terrain_data), as generate() calls it with the returned grid
CreateTerrain ==
    /\ tpc = "done"
    /\ vertices_z' = TerrainVerticesZ(terrain_result, grid_size)
    /\ tpc' = "terrain_created"
    /\ UNCHANGED <<grid_size, gi, gj, elevation_data, successful_downloads, failed_downloads,
                   points_processed, first_failure_logged, requested, terrain_result,
                   stored_grid>>
    /\ UNCHANGED <<configVars, genVars, errors, warnings, retryVars, osmVars>>

----------------------------------------------------------------------------
(* get_elevation_at_xy.  Lengths along either axis are counted in ticks,   *)
(* 2 * HalfTicksPerCell ticks to one grid step, x and y from the centre of *)
(* the box as the code counts its metres; a fraction is kept as its        *)
(* numerator over TicksPerCell, and the returned value in millimetres      *)
(* times TicksPerCell squared.  The arithmetic is that of the reals.       *)

TicksPerCell == 2 * HalfTicksPerCell

\* (mutation of GridCoordinate: the latitude is not clamped to the box)
GridCoordinateUnclamped(t, g) == t + g * HalfTicksPerCell

\* lat = center_lat + y / 111320, clamped to [min_lat, max_lat], then
\* i_float = (lat - min_lat) / (max_lat - min_lat) * grid_size (j_float
\* likewise from x): the centre lies half the extent from the minimum
GridCoordinate(t, g) ==
    Max2(0, Min2(g * TicksPerCell, t + g * HalfTicksPerCell))

\* i = int(i_float); i = max(0, min(grid_size - 1, i))
CellIndex(f, g) == Max2(0, Min2(g - 1, f \div TicksPerCell))

\* (mutation of UpperIndex: the neighbour is kept within the last cell)
UpperIndexWithinLastCell(i, g) == Min2(i + 1, g - 1)

\* min(i + 1, grid_size)
UpperIndex(i, g) == Min2(i + 1, g)

\* e0, e1 and elevation of the bilinear interpolation, then elevation * 0.1
Interpolate(e00, e10, e01, e11, i_frac, j_frac) ==
    LET e0 == e00 * (TicksPerCell - j_frac) + e01 * j_frac
        e1 == e10 * (TicksPerCell - j_frac) + e11 * j_frac
    IN  VertexZ(e0 * (TicksPerCell - i_frac) + e1 * i_frac)

\* a call get_elevation_at_xy(x, y), from its first line to its return
GetElevationAtXY ==
    /\ lookup.pc = "call"
    /\ IF stored_grid = EmptyGrid
       THEN lookup' = [lookup EXCEPT !.pc = "returned", !.z = 0]
       ELSE LET g == grid_size
                i_float == GridCoordinate(lookup.y, g)
                j_float == GridCoordinate(lookup.x, g)
                i == CellIndex(i_float, g)
                j == CellIndex(j_float, g)
                i_frac == i_float - i * TicksPerCell
                j_frac == j_float - j * TicksPerCell
                i1 == UpperIndex(i, g)
                j1 == UpperIndex(j, g)
            IN  lookup' = [lookup EXCEPT
                              !.pc = "returned",
                              !.cells = {<<i, j>>, <<i1, j>>, <<i, j1>>, <<i1, j1>>},
                              !.i_frac = i_frac,
                              !.j_frac = j_frac,
                              !.z = Interpolate(stored_grid[i][j], stored_grid[i1][j],
                                                stored_grid[i][j1], stored_grid[i1][j1],
                                                i_frac, j_frac)]
    /\ UNCHANGED <<gpc, doc_ways, ei, meshes, reported, margs>>
    /\ UNCHANGED <<configVars, errors, warnings, retryVars, osmVars, terrainVars>>

----------------------------------------------------------------------------
(* A direct call of _retry_request on a freshly constructed generator *)

Init ==
    /\ entry = "retry"
    /\ max_retries \in 0..MaxRetriesBound
    /\ backoff_factor \in 1..MaxBackoff
    /\ script = <<>>
    /\ mirrors = <<>>
    /\ lat_dm = 0
    /\ lon_dm = 0
    /\ errors = <<>>
    /\ warnings = <<>>
    /\ RetryFrame("loop", Op("Test operation", 0, 0))
    /\ OsmIdle
    /\ TerrainIdle
    /\ GenerateIdle

Next == RetrySend \/ RetryExhausted \/ RetryReceive

Spec == Init /\ [][Next]_vars

----------------------------------------------------------------------------
(* download_osm_data called on a freshly constructed generator *)

InitOsm ==
    /\ entry = "osm"
    /\ max_retries \in 0..MaxRetriesBound
    /\ backoff_factor \in 1..MaxBackoff
    /\ script = <<>>
    /\ mirrors = <<>>
    /\ lat_dm = 0
    /\ lon_dm = 0
    /\ errors = <<>>
    /\ warnings = <<>>
    /\ RetryIdle
    /\ opc = "loop"
    /\ server_index = 1
    /\ last_error = NoLastError
    /\ contacted = <<>>
    /\ mirror_fate = [k \in 1..NumServers |-> Untried]
    /\ osm_result = Document(0, NoBody)
    /\ TerrainIdle
    /\ GenerateIdle

NextOsm ==
    \/ OsmTry
    \/ RetrySend
    \/ RetryExhausted
    \/ RetryReceive
    \/ OsmAfterRetry
    \/ OsmEscape
    \/ OsmAllFailed

SpecOsm == InitOsm /\ [][NextOsm]_vars

----------------------------------------------------------------------------
(* download_terrain_data, then create_terrain, on a freshly constructed       *)
(* generator with the retry settings of __init__; the bounding box is small   *)
(* (grid sizes 20 and 21) and the network follows a script of period PatLen   *)

TerrainExtents == {<<30, 30>>, <<105, 40>>}

InitTerrain ==
    /\ entry = "terrain"
    /\ max_retries = default_max_retries
    /\ backoff_factor = default_backoff_factor
    /\ script \in [1..PatLen -> PointBehaviours]
    /\ mirrors = <<>>
    /\ \E x \in TerrainExtents : lat_dm = x[1] /\ lon_dm = x[2]
    /\ errors = <<>>
    /\ warnings = <<>>
    /\ RetryIdle
    /\ OsmIdle
    /\ tpc = "start"
    /\ grid_size = 0
    /\ gi = 0
    /\ gj = 0
    /\ elevation_data = EmptyGrid
    /\ successful_downloads = 0
    /\ failed_downloads = 0
    /\ points_processed = 0
    /\ first_failure_logged = FALSE
    /\ requested = <<>>
    /\ terrain_result = EmptyGrid
    /\ stored_grid = EmptyGrid
    /\ vertices_z = <<>>
    /\ GenerateIdle

NextTerrain ==
    \/ TerrainBegin
    \/ TerrainFetch
    \/ RetrySend
    \/ RetryExhausted
    \/ RetryReceive
    \/ TerrainAfterRetry
    \/ TerrainEscape
    \/ TerrainSummary
    \/ CreateTerrain

SpecTerrain == InitTerrain /\ [][NextTerrain]_vars

----------------------------------------------------------------------------
(* create_building_mesh, create_street_mesh, create_sidewalk_mesh and      *)
(* create_water_mesh.  Coordinates are pairs <<x, y>> of whole metres,     *)
(* building and water z in millimetres, street widths in decimetres.  A    *)
(* ribbon vertex is recorded by the point it belongs to, the direction it  *)
(* is offset in (the perpendicular, not normalised) and the distance; its  *)
(* z, which get_elevation_at_xy supplies, is not part of the record.       *)

\* a mesh handed to from_pydata; way is the index of the element it was made
\* for (0 in a direct call of a builder)
Mesh(k, vs, fs) == [kind |-> k, vertices |-> vs, faces |-> fs, way |-> 0]

\* (mutation of DropLast: every coordinate is kept)
DropNone(c) == c

\* coords[:-1]
DropLast(c) == IF Len(c) = 0 THEN <<>> ELSE SubSeq(c, 1, Len(c) - 1)

Vertex3(pt, z) == <<pt[1], pt[2], z>>

\* vertices, bottom face, top face and walls of one building
BuildingMesh(coords, height) ==
    LET base == DropLast(coords)
        n == Len(base)
        vertices == [k \in 1..(2 * n) |->
                        IF k <= n THEN Vertex3(base[k], 0)
                        ELSE Vertex3(base[k - n], 1000 * height)]
        bottom_face == [k \in 1..n |-> k - 1]
        top_face == [k \in 1..n |-> 2 * n - k]
        wall(i) == <<i, (i + 1) % n, ((i + 1) % n) + n, i + n>>
    IN  Mesh("Building", vertices, <<bottom_face, top_face>> \o [k \in 1..n |-> wall(k - 1)])

\* twice the (dx, dy) of point i (1-based): the first and the last segment at
\* the ends, the average of the two adjoining segments in between
Direction2(coords, i) ==
    LET m == Len(coords)
        a == IF i = 1 THEN coords[1] ELSE IF i = m THEN coords[m - 1] ELSE coords[i - 1]
        b == IF i = 1 THEN coords[2] ELSE IF i = m THEN coords[m] ELSE coords[i + 1]
        f == IF i = 1 \/ i = m THEN 2 ELSE 1
    IN  <<f * (b[1] - a[1]), f * (b[2] - a[2])>>

\* if length > 0: (-dy, dx) scaled, else px = py = 0
Perpendicular(d) == IF d = <<0, 0>> THEN <<0, 0>> ELSE <<-d[2], d[1]>>

RibbonVertex(pt, d, sgn, dist) ==
    [at |-> pt, dir |-> <<sgn * d[1], sgn * d[2]>>, dist |-> IF d = <<0, 0>> THEN 0 ELSE dist]

\* (mutation of RibbonFaces: one quad per point)
RibbonFacesPerPoint(m) ==
    [k \in 1..m |-> <<(k - 1) * 2, (k - 1) * 2 + 1, k * 2 + 1, k * 2>>]

\* for i in range(len(coords) - 1): faces.append((v1, v2, v3, v4))
RibbonFaces(m) ==
    [k \in 1..(m - 1) |-> <<(k - 1) * 2, (k - 1) * 2 + 1, k * 2 + 1, k * 2>>]

\* the pair of vertices of ribbon point i, at distances d1 and d2 on the
\* sides s1 and s2 of the path
RibbonPair(coords, i, s1, d1, s2, d2) ==
    LET d == Perpendicular(Direction2(coords, i))
    IN  <<RibbonVertex(coords[i], d, s1, d1), RibbonVertex(coords[i], d, s2, d2)>>

\* the street ribbon: a left and a right vertex per point, half_width away
StreetRibbon(coords, width) ==
    LET m == Len(coords)
        vertices == [k \in 1..(2 * m) |->
                        RibbonPair(coords, (k + 1) \div 2, 1, width \div 2, -1, width \div 2)
                            [IF k % 2 = 1 THEN 1 ELSE 2]]
    IN  Mesh("Street", vertices, RibbonFaces(m))

sidewalk_width == 15

\* one sidewalk: an inner and an outer vertex per point, the inner at the edge
\* of the street, the outer sidewalk_width further out
SidewalkRibbon(coords, street_width, side) ==
    LET m == Len(coords)
        vertices == [k \in 1..(2 * m) |->
                        RibbonPair(coords, (k + 1) \div 2, side, street_width \div 2,
                                   side, street_width \div 2 + sidewalk_width)
                            [IF k % 2 = 1 THEN 1 ELSE 2]]
    IN  Mesh("Sidewalk", vertices, RibbonFaces(m))

\* (mutation of SidewalkMeshes: a sidewalk on the left side only)
SidewalkLeftOnly(coords, street_width) ==
    <<SidewalkRibbon(coords, street_width, -1)>>

\* for side in [-1, 1]
SidewalkMeshes(coords, street_width) ==
    <<SidewalkRibbon(coords, street_width, -1), SidewalkRibbon(coords, street_width, 1)>>

\* if highway_type not in ['motorway', 'trunk', 'motorway_link', 'trunk_link']
HasSidewalks(highway_type) ==
    highway_type \notin {"motorway", "trunk", "motorway_link", "trunk_link"}

\* coords[1] of a one-point polyline: IndexError
StreetMeshRaises(coords) == Len(coords) = 1

\* the meshes create_street_mesh makes, in order
StreetMeshes(coords, width, highway_type) ==
    <<StreetRibbon(coords, width)>>
        \o (IF HasSidewalks(highway_type) THEN SidewalkMeshes(coords, width) ELSE <<>>)

\* the fan of triangles (0, i, i + 1) over the vertices of coords[:-1]
WaterMesh(coords) ==
    LET base == DropLast(coords)
        n == Len(base)
    IN  Mesh("Water", [k \in 1..n |-> Vertex3(base[k], 50)],
             IF n >= 3 THEN [i \in 1..(n - 2) |-> <<0, i, i + 1>>] ELSE <<>>)

\* the width create_streets gives a highway type, in decimetres
WidthOf(highway_type) ==
    IF highway_type \in {"motorway", "trunk"} THEN 100
    ELSE IF highway_type \in {"primary", "secondary"} THEN 60
    ELSE IF highway_type \in {"tertiary", "residential"} THEN 40
    ELSE 30

Args(c, h, t) == [coords |-> c, height |-> h, highway |-> t]

\* a direct call create_building_mesh(coords, height)
CallCreateBuildingMesh ==
    /\ gpc = "call"
    /\ meshes' = Append(meshes, BuildingMesh(margs.coords, margs.height))
    /\ gpc' = "returned"
    /\ UNCHANGED <<doc_ways, ei, reported, margs, lookup>>
    /\ UNCHANGED <<configVars, errors, warnings, retryVars, osmVars, terrainVars>>

\* a direct call create_street_mesh(coords, width, highway_type)
CallCreateStreetMesh ==
    /\ gpc = "call"
    /\ IF StreetMeshRaises(margs.coords)
       THEN /\ gpc' = "raised"
            /\ meshes' = meshes
       ELSE /\ gpc' = "returned"
            /\ meshes' = meshes \o StreetMeshes(margs.coords, WidthOf(margs.highway), margs.highway)
    /\ UNCHANGED <<doc_ways, ei, reported, margs, lookup>>
    /\ UNCHANGED <<configVars, errors, warnings, retryVars, osmVars, terrainVars>>

\* a direct call create_water_mesh(coords)
CallCreateWaterMesh ==
    /\ gpc = "call"
    /\ meshes' = Append(meshes, WaterMesh(margs.coords))
    /\ gpc' = "returned"
    /\ UNCHANGED <<doc_ways, ei, reported, margs, lookup>>
    /\ UNCHANGED <<configVars, errors, warnings, retryVars, osmVars, terrainVars>>

----------------------------------------------------------------------------
(* create_buildings, create_streets, create_water and create_trees.  A way *)
(* is recorded by its kind (the tag the stages select it by), by which of  *)
(* its node ids are in the document (resolved) and by the one tag value    *)
(* its stage reads: the height text of a building, the highway type.  The  *)
(* node at position p of a way lies at NodeAt(p).  Nodes tagged as single  *)
(* trees are not represented.                                              *)

Way(k, r, t) == [kind |-> k, resolved |-> r, tag |-> t]

NodeAt(p) == <<p, p * p>>

\* for node_id in node_ids: if node_id in nodes: coords.append((x, y))
RECURSIVE CoordsFrom(_, _)
CoordsFrom(r, p) ==
    IF p > Len(r) THEN <<>>
    ELSE (IF r[p] THEN <<NodeAt(p)>> ELSE <<>>) \o CoordsFrom(r, p + 1)

ResolvedCoords(w) == CoordsFrom(w.resolved, 1)

\* osm_data.get('elements', [])
Elements ==
    IF osm_result.body.shape = "elements" /\ osm_result.body.n > 0 THEN doc_ways ELSE <<>>

\* element['type'] of something that is no OSM element: KeyError or TypeError
ElementsRaise == osm_result.body.shape = "malformed_elements"

\* float(tags.get('height', tags.get('building:levels', 3))) * 3, in metres
HeightRaises(t) == t \notin {"absent", "10"}
HeightOf(t) == IF t = "10" THEN 10 * 3 ELSE 3 * 3

\* the meshes of a stage carry the index of the element they were made for
Tagged(ms, i) == [k \in 1..Len(ms) |-> [ms[k] EXCEPT !.way = i]]

\* (mutation of TooFewForPolygon: two coordinates are enough)
TooFewForPolygonBelowTwo(coords) == Len(coords) < 2

\* if len(coords) < 3: continue, in create_buildings and in create_water
TooFewForPolygon(coords) == Len(coords) < 3

\* if len(coords) < 2: continue, in create_streets
TooFewForStreet(coords) == Len(coords) < 2

\* create_buildings up to its second loop: the nodes are collected
CreateBuildingsBegin ==
    /\ gpc = "create_buildings"
    /\ IF ElementsRaise
       THEN gpc' = "raised" /\ ei' = ei
       ELSE gpc' = "buildings" /\ ei' = 1
    /\ UNCHANGED <<doc_ways, meshes, reported, margs, lookup>>
    /\ UNCHANGED <<configVars, errors, warnings, retryVars, osmVars, terrainVars>>

\* one element of the loop of create_buildings, or its end and the first loop
\* of create_streets
CreateBuildingsStep ==
    /\ gpc = "buildings"
    /\ IF ei > Len(Elements)
       THEN gpc' = "streets" /\ ei' = 1 /\ meshes' = meshes
       ELSE LET w == Elements[ei]
                coords == ResolvedCoords(w)
            IN  IF w.kind # "building" \/ TooFewForPolygon(coords)
                THEN gpc' = gpc /\ ei' = ei + 1 /\ meshes' = meshes
                ELSE IF HeightRaises(w.tag)
                THEN gpc' = "raised" /\ ei' = ei /\ meshes' = meshes
                ELSE /\ meshes' = meshes \o Tagged(<<BuildingMesh(coords, HeightOf(w.tag))>>, ei)
                     /\ gpc' = gpc
                     /\ ei' = ei + 1
    /\ UNCHANGED <<doc_ways, reported, margs, lookup>>
    /\ UNCHANGED <<configVars, errors, warnings, retryVars, osmVars, terrainVars>>

\* one element of the loop of create_streets, or its end and the first loop of
\* create_water
CreateStreetsStep ==
    /\ gpc = "streets"
    /\ IF ei > Len(Elements)
       THEN gpc' = "water" /\ ei' = 1 /\ meshes' = meshes
       ELSE LET w == Elements[ei]
                coords == ResolvedCoords(w)
            IN  /\ gpc' = gpc
                /\ ei' = ei + 1
                /\ meshes' = IF w.kind # "highway" \/ TooFewForStreet(coords)
                             THEN meshes
                             ELSE meshes \o Tagged(StreetMeshes(coords, WidthOf(w.tag), w.tag), ei)
    /\ UNCHANGED <<doc_ways, reported, margs, lookup>>
    /\ UNCHANGED <<configVars, errors, warnings, retryVars, osmVars, terrainVars>>

\* one element of the loop of create_water, or its end and the first loops of
\* create_trees
CreateWaterStep ==
    /\ gpc = "water"
    /\ IF ei > Len(Elements)
       THEN gpc' = "trees" /\ ei' = 1 /\ meshes' = meshes
       ELSE LET w == Elements[ei]
                coords == ResolvedCoords(w)
            IN  /\ gpc' = gpc
                /\ ei' = ei + 1
                /\ meshes' = IF w.kind # "water" \/ TooFewForPolygon(coords)
                             THEN meshes
                             ELSE meshes \o Tagged(<<WaterMesh(coords)>>, ei)
    /\ UNCHANGED <<doc_ways, reported, margs, lookup>>
    /\ UNCHANGED <<configVars, errors, warnings, retryVars, osmVars, terrainVars>>

\* trunk and canopy of one tree, recorded as one mesh at the tree's place
TreeMesh(pt) == Mesh("Tree", <<Vertex3(pt, 0)>>, <<>>)

\* (mutation of TreesFrom: the way is resolved first and every other
\* coordinate of the result gets a tree)
TreesFromResolved(r, p) ==
    LET c == CoordsFrom(r, p)
    IN  [k \in 1..((Len(c) + 1) \div 2) |-> TreeMesh(c[2 * k - 1])]

\* for node_id in node_ids[::2]: if node_id in nodes: create_tree_mesh(x, y)
RECURSIVE TreesFrom(_, _)
TreesFrom(r, p) ==
    IF p > Len(r) THEN <<>>
    ELSE (IF r[p] THEN <<TreeMesh(NodeAt(p))>> ELSE <<>>) \o TreesFrom(r, p + 2)

\* one element of the tree-row loop of create_trees, or its end
CreateTreesStep ==
    /\ gpc = "trees"
    /\ IF ei > Len(Elements)
       THEN gpc' = "export" /\ ei' = ei /\ meshes' = meshes
       ELSE LET w == Elements[ei]
            IN  /\ gpc' = gpc
                /\ ei' = ei + 1
                /\ meshes' = IF w.kind # "tree_row" THEN meshes
                             ELSE meshes \o Tagged(TreesFrom(w.resolved, 1), ei)
    /\ UNCHANGED <<doc_ways, reported, margs, lookup>>
    /\ UNCHANGED <<configVars, errors, warnings, retryVars, osmVars, terrainVars>>

----------------------------------------------------------------------------
(* generate() and the two ways into it: CITYGEN_OT_Generate.execute and    *)
(* main().  The bounding box is known by its extents, so min >= max is an  *)
(* extent that is not positive.                                            *)

\* if min_lat >= max_lat or min_lon >= max_lon
InvalidBox == lat_dm <= 0 \/ lon_dm <= 0

\* the operator: the box is validated, then CityGenerator(...).generate()
Execute ==
    /\ gpc = "entry"
    /\ entry = "execute"
    /\ gpc' = IF InvalidBox THEN "CANCELLED" ELSE "generate"
    /\ UNCHANGED <<doc_ways, ei, meshes, reported, margs, lookup>>
    /\ UNCHANGED <<configVars, errors, warnings, retryVars, osmVars, terrainVars>>

\* the command line: CityGenerator(args...).generate()
Main ==
    /\ gpc = "entry"
    /\ entry = "main"
    /\ gpc' = "generate"
    /\ UNCHANGED <<doc_ways, ei, meshes, reported, margs, lookup>>
    /\ UNCHANGED <<configVars, errors, warnings, retryVars, osmVars, terrainVars>>

\* self.clear_scene(); osm_data = self.download_osm_data() is entered
GenerateBegin ==
    /\ gpc = "generate"
    /\ gpc' = "osm"
    /\ opc' = "loop"
    /\ server_index' = 1
    /\ last_error' = NoLastError
    /\ UNCHANGED <<contacted, mirror_fate, osm_result>>
    /\ UNCHANGED <<doc_ways, ei, meshes, reported, margs, lookup>>
    /\ UNCHANGED <<configVars, errors, warnings, retryVars, terrainVars>>

\* the ways of the documents that carry elements
GenerateDocs ==
    {<<Way("building", <<TRUE, FALSE, TRUE>>, "absent"),
       Way("highway", <<TRUE, TRUE>>, "residential"),
       Way("building", <<TRUE, TRUE, TRUE, TRUE>>, "10")>>,
     <<Way("water", <<TRUE, TRUE, TRUE, TRUE>>, ""),
       Way("building", <<TRUE, TRUE, TRUE>>, "10 m"),
       Way("tree_row", <<TRUE, FALSE, TRUE>>, "")>>}

\* download_osm_data has ended: by an exception, which ends generate(), or
\* with the document; terrain_data = self.download_terrain_data() is entered
GenerateAfterOsm ==
    /\ gpc = "osm"
    /\ opc \in {"done", "raised"}
    /\ IF opc = "raised"
       THEN /\ gpc' = "raised"
            /\ UNCHANGED <<tpc, doc_ways>>
       ELSE /\ gpc' = "terrain"
            /\ tpc' = "start"
            /\ doc_ways' \in IF osm_result.body.shape = "elements" /\ osm_result.body.n > 0
                             THEN GenerateDocs ELSE {<<>>}
    /\ UNCHANGED <<grid_size, gi, gj, elevation_data, successful_downloads, failed_downloads,
                   points_processed, first_failure_logged, requested, terrain_result,
                   stored_grid, vertices_z>>
    /\ UNCHANGED <<ei, meshes, reported, margs, lookup>>
    /\ UNCHANGED <<configVars, errors, warnings, retryVars, osmVars>>

\* self.create_terrain(terrain_data) has returned; self.create_buildings(osm_data)
GenerateAfterTerrain ==
    /\ gpc = "terrain"
    /\ tpc = "terrain_created"
    /\ gpc' = "create_buildings"
    /\ UNCHANGED <<doc_ways, ei, meshes, reported, margs, lookup>>
    /\ UNCHANGED <<configVars, errors, warnings, retryVars, osmVars, terrainVars>>

\* self.export_to_3ds(): returns True or False, its exceptions are caught
Export ==
    /\ gpc = "export"
    /\ gpc' = "report"
    /\ UNCHANGED <<doc_ways, ei, meshes, reported, margs, lookup>>
    /\ UNCHANGED <<configVars, errors, warnings, retryVars, osmVars, terrainVars>>

\* the summary: self.warnings and self.errors are enumerated and printed
Report ==
    /\ gpc = "report"
    /\ reported' = [read |-> TRUE, warnings |-> warnings, errors |-> errors]
    /\ gpc' = "done"
    /\ UNCHANGED <<doc_ways, ei, meshes, margs, lookup>>
    /\ UNCHANGED <<configVars, errors, warnings, retryVars, osmVars, terrainVars>>

----------------------------------------------------------------------------
(* The grid size of download_terrain_data over a range of bounding boxes. *)
(* The extents are lat_meters and lon_meters in decimetres; a box given   *)
(* with min > max (main() accepts it) has a negative extent.              *)

GridExtents == {-30, 0, 4, 5, 99, 100, 104, 105, 250, 499, 500, 504, 505, 1000}

InitGrid ==
    /\ entry = "grid"
    /\ max_retries = default_max_retries
    /\ backoff_factor = default_backoff_factor
    /\ script = <<>>
    /\ mirrors = <<>>
    /\ lat_dm \in GridExtents
    /\ lon_dm \in GridExtents
    /\ errors = <<>>
    /\ warnings = <<>>
    /\ RetryIdle
    /\ OsmIdle
    /\ tpc = "start"
    /\ grid_size = 0
    /\ gi = 0
    /\ gj = 0
    /\ elevation_data = EmptyGrid
    /\ successful_downloads = 0
    /\ failed_downloads = 0
    /\ points_processed = 0
    /\ first_failure_logged = FALSE
    /\ requested = <<>>
    /\ terrain_result = EmptyGrid
    /\ stored_grid = EmptyGrid
    /\ vertices_z = <<>>
    /\ GenerateIdle

NextGrid == TerrainBegin

SpecGrid == InitGrid /\ [][NextGrid]_vars

----------------------------------------------------------------------------
(* The mesh builders called directly, on every sequence of at most         *)
(* MaxCoords coordinates taken from the corners of a unit square.          *)

MaxCoords == 5
Corners == {<<0, 0>>, <<1, 0>>, <<1, 1>>, <<0, 1>>}
CoordSeqs == UNION {[1..m -> Corners] : m \in 0..MaxCoords}

\* highway values of each width class of create_streets and of the sidewalk
\* test of create_street_mesh ("service" stands for every other value)
HighwayTypes ==
    {"motorway", "trunk", "motorway_link", "trunk_link", "primary", "residential", "service"}

InitShapes ==
    /\ entry = "mesh"
    /\ max_retries = default_max_retries
    /\ backoff_factor = default_backoff_factor
    /\ script = <<>>
    /\ mirrors = <<>>
    /\ lat_dm = 0
    /\ lon_dm = 0
    /\ errors = <<>>
    /\ warnings = <<>>
    /\ RetryIdle
    /\ OsmIdle
    /\ TerrainIdle
    /\ gpc = "call"
    /\ doc_ways = <<>>
    /\ ei = 0
    /\ meshes = <<>>
    /\ reported = NoReport
    /\ margs \in {Args(c, 9, t) : c \in CoordSeqs, t \in HighwayTypes}
    /\ lookup = NoLookup

NextShapes == CallCreateBuildingMesh \/ CallCreateStreetMesh \/ CallCreateWaterMesh

SpecShapes == InitShapes /\ [][NextShapes]_vars

----------------------------------------------------------------------------
(* The four create_* stages, run as generate() runs them, on every document *)
(* of at most two ways of at most MaxWayLen node ids each.                  *)

MaxWayLen == 3
Resolutions == UNION {[1..m -> BOOLEAN] : m \in 0..MaxWayLen}
Ways ==
    {Way(k[1], r, k[2]) :
        k \in {<<"building", "absent">>, <<"building", "10 m">>, <<"highway", "residential">>,
               <<"highway", "motorway">>, <<"water", "">>, <<"tree_row", "">>},
        r \in Resolutions}
WayDocuments == {<<>>} \cup {<<w>> : w \in Ways} \cup {<<w1, w2>> : w1 \in Ways, w2 \in Ways}

InitWays ==
    /\ entry = "stages"
    /\ max_retries = default_max_retries
    /\ backoff_factor = default_backoff_factor
    /\ script = <<>>
    /\ mirrors = <<>>
    /\ lat_dm = 0
    /\ lon_dm = 0
    /\ errors = <<>>
    /\ warnings = <<>>
    /\ RetryIdle
    /\ opc = "done"
    /\ server_index = 1
    /\ last_error = NoLastError
    /\ contacted = <<>>
    /\ mirror_fate = [k \in 1..NumServers |-> Untried]
    /\ doc_ways \in WayDocuments
    /\ osm_result = Document(1, Body("elements", Len(doc_ways)))
    /\ TerrainIdle
    /\ gpc = "create_buildings"
    /\ ei = 0
    /\ meshes = <<>>
    /\ reported = NoReport
    /\ margs = NoArgs
    /\ lookup = NoLookup

NextWays ==
    \/ CreateBuildingsBegin
    \/ CreateBuildingsStep
    \/ CreateStreetsStep
    \/ CreateWaterStep
    \/ CreateTreesStep

SpecWays == InitWays /\ [][NextWays]_vars

----------------------------------------------------------------------------
(* A generation started through the operator or the command line, with the *)
(* defaults of the constructor, a box 3 m by 3 m or one given with its     *)
(* latitudes reversed, every Overpass mirror behaving alike and every      *)
(* elevation request behaving alike.                                       *)

MirrorBehaviours ==
    {Behaviour(<<OkOutcome>>, Body("elements", 2)),
     Behaviour(<<OkOutcome>>, Body("elements", 0)),
     Behaviour(<<OkOutcome>>, Body("json_error", 0)),
     Behaviour(<<OkOutcome>>, Body("malformed_elements", 1)),
     Behaviour(<<Out("Timeout", 0)>>, NoBody),
     Behaviour(<<Out("HTTPError", 504), OkOutcome>>, Body("elements", 2)),
     Behaviour(<<Out("HTTPErrorNoResponse", 0)>>, NoBody)}

GenerateExtents == {<<30, 30>>, <<-30, 30>>}

InitGenerate ==
    /\ entry \in {"execute", "main"}
    /\ max_retries = default_max_retries
    /\ backoff_factor = default_backoff_factor
    /\ script \in {<<b>> : b \in PointBehaviours}
    /\ mirrors \in {<<b>> : b \in MirrorBehaviours}
    /\ \E x \in GenerateExtents : lat_dm = x[1] /\ lon_dm = x[2]
    /\ errors = <<>>
    /\ warnings = <<>>
    /\ RetryIdle
    /\ OsmIdle
    /\ TerrainIdle
    /\ gpc = "entry"
    /\ doc_ways = <<>>
    /\ ei = 0
    /\ meshes = <<>>
    /\ reported = NoReport
    /\ margs = NoArgs
    /\ lookup = NoLookup

NextGenerate ==
    \/ Execute
    \/ Main
    \/ GenerateBegin
    \/ OsmTry
    \/ RetrySend
    \/ RetryExhausted
    \/ RetryReceive
    \/ OsmAfterRetry
    \/ OsmEscape
    \/ OsmAllFailed
    \/ GenerateAfterOsm
    \/ TerrainBegin
    \/ TerrainFetch
    \/ TerrainAfterRetry
    \/ TerrainEscape
    \/ TerrainSummary
    \/ CreateTerrain
    \/ GenerateAfterTerrain
    \/ CreateBuildingsBegin
    \/ CreateBuildingsStep
    \/ CreateStreetsStep
    \/ CreateWaterStep
    \/ CreateTreesStep
    \/ Export
    \/ Report

SpecGenerate == InitGenerate /\ [][NextGenerate]_vars

----------------------------------------------------------------------------
(* get_elevation_at_xy called after a terrain download of a 3 m by 3 m box *)
(* (grid_size 20) that stored one of three grids, or before any download,  *)
(* at every point of the tick lattice up to OutsideTicks beyond the box.   *)

OutsideTicks == 2

\* grids the elevation service can have filled: flat, a slope with negative
\* values, and an uneven one whose neighbouring samples all differ
SampleGrids(g) ==
    {Zeros(g),
     [i \in 0..g |-> [j \in 0..g |-> 2 * i - 3 * j]],
     [i \in 0..g |-> [j \in 0..g |-> (3 * i + 5 * j) % 11]]}

QueryRange(g) == (0 - g * HalfTicksPerCell - OutsideTicks)..(g * HalfTicksPerCell + OutsideTicks)

InitElevation ==
    /\ entry = "lookup"
    /\ max_retries = default_max_retries
    /\ backoff_factor = default_backoff_factor
    /\ script = <<>>
    /\ mirrors = <<>>
    /\ lat_dm = 30
    /\ lon_dm = 30
    /\ errors = <<>>
    /\ warnings = <<>>
    /\ RetryIdle
    /\ OsmIdle
    /\ \/ TerrainIdle
       \/ /\ tpc = "done"
          /\ grid_size = GridSizeOf(lat_dm, lon_dm)
          /\ gi = grid_size + 1
          /\ gj = 0
          /\ elevation_data \in SampleGrids(grid_size)
          /\ successful_downloads = TotalPoints(grid_size)
          /\ failed_downloads = 0
          /\ points_processed = TotalPoints(grid_size)
          /\ first_failure_logged = FALSE
          /\ requested = <<>>
          /\ terrain_result = elevation_data
          /\ stored_grid = elevation_data
          /\ vertices_z = <<>>
    /\ gpc = "idle"
    /\ doc_ways = <<>>
    /\ ei = 0
    /\ meshes = <<>>
    /\ reported = NoReport
    /\ margs = NoArgs
    /\ \E x \in QueryRange(MinGridSize), y \in QueryRange(MinGridSize) :
          lookup = [NoLookup EXCEPT !.pc = "call", !.x = x, !.y = y]

NextElevation == GetElevationAtXY

SpecElevation == InitElevation /\ [][NextElevation]_vars

(* PROPERTIES *)
----------------------------------------------------------------------------
(* Properties of _retry_request, checked under Spec *)

\* C1: for max_retries >= 1, a call whose every attempt ends in a retryable
\* fault (timeout, connection failure, 429, 5xx) never invokes the request
\* operation more than max_retries times, and when it has returned it has
\* invoked it exactly max_retries times, returned None and recorded one error.
C1_ExactlyMaxRetries ==
    (max_retries >= 1 /\ allRetryable) =>
        /\ calls <= max_retries
        /\ rpc = "returned" =>
              /\ calls = max_retries
              /\ rresult = "none"
              /\ Len(errors) = errLen0 + 1

\* a call of three attempts, all failed with retryable faults, has returned
C1_Witness ==
    /\ rpc = "returned"
    /\ allRetryable
    /\ max_retries = 3
    /\ calls = 3
    /\ last = Out("HTTPError", 503)

\* C2: _retry_request never lets an exception reach its caller.
C2_NeverRaises == rpc # "raised"

\* the answer is an HTTP 4xx status other than 429
IsClientError(o) == o.kind = "HTTPError" /\ o.status >= 400 /\ o.status < 500 /\ o.status # 429

\* C3: an HTTP 4xx other than 429, on any attempt, ends the call at once:
\* no further invocation, None returned, one error recorded for that status.
C3_ClientErrorFailsFast ==
    IsClientError(last) =>
        /\ rpc = "returned"
        /\ rresult = "none"
        /\ calls = attempt + 1
        /\ Len(errors) = errLen0 + 1
        /\ errors[Len(errors)] = Err(op, "HTTP error", last.status)

\* a 404 met on the third attempt, after two retried faults
C3_Witness ==
    /\ last = Out("HTTPError", 404)
    /\ attempt = 2
    /\ rpc = "returned"

\* C4: when an attempt succeeds after k retried faults, the call returns the
\* response after exactly k+1 invocations and records no error.
C4_SuccessAfterRetries ==
    last.kind = "ok" =>
        /\ rpc = "returned"
        /\ rresult = "response"
        /\ calls = attempt + 1
        /\ calls <= max_retries
        /\ Len(errors) = errLen0
        /\ inflight = {}

\* one 429 (its 10 s wait is in the trace), then success on the second of
\* three allowed attempts
C4_Witness ==
    /\ last.kind = "ok"
    /\ rresult = "response"
    /\ max_retries = 3
    /\ calls = 2
    /\ \E k \in 1..Len(trace) : trace[k] = EvSleep(10000)

\* the time slept, in ms, by the events of tr that end at position k and follow
\* the latest request before them
RECURSIVE SleptBefore(_, _)
SleptBefore(tr, k) ==
    IF k = 0 \/ tr[k].ev = "request" THEN 0 ELSE tr[k].v + SleptBefore(tr, k - 1)

\* the time slept between the previous answer and the request now in flight
WaitBeforeThisAttempt == SleptBefore(trace, Len(trace) - 1)

\* C11: when attempt i (not the last) receives HTTP 429, the total wait between
\* that answer and the start of attempt i+1 is 10 * (i+1) seconds.
C11_RateLimitWait ==
    (rpc = "inflight" /\ last = Out("HTTPError", 429)) =>
        WaitBeforeThisAttempt = 1000 * 10 * attempt

\* what the code does after a 429: the 10 * (i+1) seconds of the handler and
\* then the backoff_factor ** i seconds at the top of the next iteration
C11_RateLimitWaitPlusBackoff ==
    (rpc = "inflight" /\ last = Out("HTTPError", 429)) =>
        WaitBeforeThisAttempt = 1000 * (10 * attempt + Pow(backoff_factor, attempt - 1))

\* C12: when attempt i (not the last) receives HTTP 504, the wait before
\* attempt i+1 is backoff_factor^i + 5 seconds, the wait at the top of the loop
\* being skipped for that retry.
C12_GatewayWaitOnly ==
    (rpc = "inflight" /\ last = Out("HTTPError", 504)) =>
        WaitBeforeThisAttempt = 1000 * (Pow(backoff_factor, attempt - 1) + 5)

\* what the code does after a 504: the handler's wait and the wait at the top
\* of the loop are both slept
C12_GatewayWaitPlusBackoff ==
    (rpc = "inflight" /\ last = Out("HTTPError", 504)) =>
        WaitBeforeThisAttempt = 1000 * (2 * Pow(backoff_factor, attempt - 1) + 5)

\* the number of requests among the first p events of the trace
RequestsUpTo(p) == Cardinality({q \in 1..p : trace[q].ev = "request"})

\* C13: attempt i (0-indexed) passes timeout = initial_timeout * backoff_factor^i
\* to the request operation, on every attempt and after every kind of failure.
C13_TimeoutPerAttempt ==
    \A p \in 1..Len(trace) :
        trace[p].ev = "request" =>
            trace[p].v = 30 * Pow(backoff_factor, RequestsUpTo(p) - 1)

\* the third attempt, sent with 120 s after a 429 and a 504
C13_Witness ==
    /\ rpc = "inflight"
    /\ attempt = 2
    /\ backoff_factor = 2
    /\ last = Out("HTTPError", 504)
    /\ \E k \in 1..Len(trace) : trace[k] = EvSleep(10000)
    /\ trace[Len(trace)] = EvRequest(120)

----------------------------------------------------------------------------
(* Properties of download_osm_data, checked under SpecOsm *)

\* a mirror failed: its _retry_request returned None, or reading its document raised
MirrorFailed(f) == f.got = "none" \/ (f.got = "response" /\ ~Parses(f.body))
MirrorParsed(f) == f.got = "response" /\ Parses(f.body)

\* C5: the mirrors are contacted in list order, one _retry_request each; a
\* mirror is contacted only after every earlier mirror failed; the function
\* returns the document of the first mirror whose response parses, and
\* contacts no mirror after it.
C5_MirrorsInOrder ==
    /\ Len(contacted) <= NumServers
    /\ \A k \in 1..Len(contacted) :
          /\ contacted[k] = k
          /\ \A j \in 1..(k - 1) : MirrorFailed(mirror_fate[j])
    /\ \A k \in 1..NumServers :
          MirrorParsed(mirror_fate[k]) =>
              /\ opc = "done"
              /\ osm_result = Document(k, mirror_fate[k].body)
              /\ Len(contacted) = k
    /\ opc = "call" => server_index = Len(contacted)

\* the third mirror's document is returned after the first mirror's retries
\* were exhausted and the second mirror's body failed to parse
C5_Witness ==
    /\ opc = "done"
    /\ osm_result = Document(3, Body("elements", 2))
    /\ mirror_fate[1].got = "none"
    /\ mirror_fate[1].last.kind = "Timeout"
    /\ mirror_fate[2].got = "response"
    /\ mirror_fate[2].body.shape = "json_error"

\* C6: when every mirror has failed, each mirror was tried exactly once, the
\* empty dataset is returned, and the aggregate warning is the only, hence
\* the first, entry of warnings.
C6_AllMirrorsFail ==
    (opc = "done" /\ \A k \in 1..NumServers : MirrorFailed(mirror_fate[k])) =>
        /\ contacted = [k \in 1..NumServers |-> k]
        /\ osm_result = EmptyDataset
        /\ warnings = <<AllFailedWarning(last_error)>>
        /\ last_error.server = NumServers

\* retries exhausted on the first mirror, a 404 on the second, a body that is
\* no JSON on the third
C6_Witness ==
    /\ opc = "done"
    /\ max_retries >= 2
    /\ mirror_fate[1] = Fate("none", Out("Timeout", 0), NoBody)
    /\ mirror_fate[2] = Fate("none", Out("HTTPError", 404), NoBody)
    /\ mirror_fate[3].got = "response"
    /\ mirror_fate[3].body.shape = "json_error"

\* C7: a mirror's parseable document with zero elements is the result: one
\* warning is appended, that document is returned, no later mirror is
\* contacted and no error is appended.
C7_EmptyDocumentIsValid ==
    \A k \in 1..NumServers :
        (MirrorParsed(mirror_fate[k]) /\ ElementsCount(mirror_fate[k].body) = 0) =>
            /\ opc = "done"
            /\ osm_result = Document(k, mirror_fate[k].body)
            /\ Len(contacted) = k
            /\ warnings = <<ZeroElementsWarning>>
            /\ Len(errors) = errLen0

\* the second mirror answers with an empty elements list after the first failed
C7_Witness ==
    /\ opc = "done"
    /\ mirror_fate[1].got = "none"
    /\ mirror_fate[2] = Fate("response", OkOutcome, Body("elements", 0))
    /\ Len(errors) = 1

----------------------------------------------------------------------------
(* Properties of download_terrain_data and create_terrain, checked under     *)
(* SpecTerrain.  What the network does at a grid point is read off the       *)
(* script, not off the program's own counters.                               *)

\* the fetch of a point with behaviour b succeeds: some allowed attempt is
\* answered, and the document carries an elevation
FetchSucceeds(b) ==
    /\ b.body.shape = "elevation"
    /\ Len(b.net) <= max_retries
    /\ b.net[Len(b.net)].kind = "ok"

\* the point's fetch fails in one of the ways C8 names: retries exhausted (or
\* the request refused), or a response whose document is malformed
FetchFailsAsClaimed(b) ==
    /\ ~FetchSucceeds(b)
    /\ b.net[1].kind # "HTTPErrorNoResponse"

\* the document makes the lookups of _fetch_elevation_point raise
RaisingDocument(b) == b.net[Len(b.net)].kind = "ok" /\ b.body.shape = "type_error"

TerrainReturned == tpc \in {"done", "terrain_created"}

\* the k-th point of the grid in row-major order (i outer, j inner)
RowMajorAt(k, g) == <<(k - 1) \div (g + 1), (k - 1) % (g + 1)>>

\* an exception cuts the loops short: a raising document, or _retry_request raising
CutsShort(b) == RaisingDocument(b) \/ b.net[1].kind = "HTTPErrorNoResponse"

\* C8: a grid point whose fetch fails (retries exhausted, or a malformed
\* response of any shape) gets elevation 0 and the grid is not aborted: every
\* point is fetched, and every point whose fetch succeeded keeps its fetched
\* elevation in the returned grid.
C8_FailedPointFallsBack ==
    (TerrainReturned
     /\ \A k \in 1..Len(script) : FetchSucceeds(script[k]) \/ FetchFailsAsClaimed(script[k])) =>
        /\ Len(requested) = TotalPoints(grid_size)
        /\ \A i \in 0..grid_size : \A j \in 0..grid_size :
              terrain_result[i][j] =
                  IF FetchSucceeds(BehaviourAt(script, i, j, grid_size))
                  THEN BehaviourAt(script, i, j, grid_size).body.n
                  ELSE 0

\* the same, for the malformed documents that _fetch_elevation_point catches
\* (no results, text that is no JSON): this much holds of the code
C8_HoldsForCaughtDocuments ==
    (TerrainReturned
     /\ \A k \in 1..Len(script) :
           /\ FetchSucceeds(script[k]) \/ FetchFailsAsClaimed(script[k])
           /\ ~RaisingDocument(script[k])) =>
        /\ Len(requested) = TotalPoints(grid_size)
        /\ \A i \in 0..grid_size : \A j \in 0..grid_size :
              terrain_result[i][j] =
                  IF FetchSucceeds(BehaviourAt(script, i, j, grid_size))
                  THEN BehaviourAt(script, i, j, grid_size).body.n
                  ELSE 0

\* C9: when every elevation fetch fails, the grid has (grid_size+1)^2 samples,
\* all 0, at least one warning was appended, and create_terrain emits only
\* vertices with z = 0.
C9_AllFetchesFail ==
    (TerrainReturned /\ \A k \in 1..Len(script) : FetchFailsAsClaimed(script[k])) =>
        /\ DOMAIN terrain_result = 0..grid_size
        /\ \A i \in 0..grid_size : DOMAIN terrain_result[i] = 0..grid_size
        /\ AllZero(terrain_result, grid_size)
        /\ Len(warnings) >= 1
        /\ tpc = "terrain_created" =>
              /\ Len(vertices_z) = TotalPoints(grid_size)
              /\ \A k \in 1..Len(vertices_z) : vertices_z[k] = 0

\* the same when no document makes the lookups raise: this much holds
C9_HoldsForCaughtDocuments ==
    (TerrainReturned
     /\ \A k \in 1..Len(script) : FetchFailsAsClaimed(script[k]) /\ ~RaisingDocument(script[k])) =>
        /\ AllZero(terrain_result, grid_size)
        /\ Len(warnings) >= 2
        /\ warnings[Len(warnings)] = AllZeroWarning
        /\ warnings[Len(warnings) - 1] = FailedWarning(TotalPoints(grid_size), TotalPoints(grid_size))
        /\ tpc = "terrain_created" =>
              /\ Len(vertices_z) = TotalPoints(grid_size)
              /\ \A k \in 1..Len(vertices_z) : vertices_z[k] = 0

\* C10: one _retry_request per grid point, for exactly (grid_size+1)^2 points
\* (at least 21 x 21), in row-major order, never more than one request in
\* flight, and that one for the point last started.
C10_SequentialRowMajor ==
    /\ Cardinality(inflight) <= 1
    /\ \A r \in inflight :
          /\ tpc = "call"
          /\ r.op = Op("Terrain elevation point", gi, gj)
          /\ requested[Len(requested)] = <<gi, gj>>
    /\ \A k \in 1..Len(requested) : requested[k] = RowMajorAt(k, grid_size)
    /\ TerrainReturned =>
          /\ Len(requested) = TotalPoints(grid_size)
          /\ Len(requested) >= 21 * 21

\* the order and the one-at-a-time part of C10 hold in every run; the count
\* holds in the runs that no exception cuts short
C10_HoldsUnlessAborted ==
    /\ Cardinality(inflight) <= 1
    /\ \A r \in inflight :
          /\ tpc = "call"
          /\ r.op = Op("Terrain elevation point", gi, gj)
          /\ requested[Len(requested)] = <<gi, gj>>
    /\ Len(requested) <= TotalPoints(grid_size)
    /\ \A k \in 1..Len(requested) : requested[k] = RowMajorAt(k, grid_size)
    /\ (TerrainReturned /\ \A k \in 1..Len(script) : ~CutsShort(script[k])) =>
          /\ Len(requested) = TotalPoints(grid_size)
          /\ Len(requested) >= 21 * 21

----------------------------------------------------------------------------
(* Properties of the grid size, checked under SpecGrid *)

\* an extent in decimetres divided by 0.5 m and truncated
Samples(dm) == IF dm >= 0 THEN dm \div 5 ELSE -((-dm) \div 5)

\* max(a, b, 20) with the upper bound 100 applied
Clamped(a, b) ==
    LET m == IF a >= b THEN a ELSE b
        lo == IF m >= 20 THEN m ELSE 20
    IN  IF lo <= 100 THEN lo ELSE 100

----------------------------------------------------------------------------
(* Properties of the mesh builders, checked under SpecShapes *)

\* the distinct points of a coordinate sequence
PointsOf(c) == {c[i] : i \in 1..Len(c)}

\* a footprint of n distinct vertices as an OSM way gives it: the n vertices
\* followed by the first one again
IsClosedRing(c) ==
    /\ Len(c) >= 2
    /\ c[Len(c)] = c[1]
    /\ Cardinality(PointsOf(c)) = Len(c) - 1

\* the face indices of a mesh
FaceIndices(m) == UNION {{m.faces[f][k] : k \in 1..Len(m.faces[f])} : f \in 1..Len(m.faces)}

\* C19: extruding a footprint of n distinct vertices yields 2n vertices (n at
\* z = 0, then n at z = height) and n+2 faces: the bottom over 0..n-1, the top
\* over n..2n-1 reversed, and n side quads [i, (i+1) mod n, (i+1) mod n + n,
\* i + n]; every face index is in [0, 2n).
C19_BuildingExtrusion ==
    \A k \in 1..Len(meshes) :
        (meshes[k].kind = "Building" /\ IsClosedRing(margs.coords)) =>
            LET c == margs.coords
                n == Cardinality(PointsOf(c))
                v == meshes[k].vertices
                f == meshes[k].faces
            IN  /\ Len(v) = 2 * n
                /\ \A i \in 1..n :
                      /\ v[i] = <<c[i][1], c[i][2], 0>>
                      /\ v[n + i] = <<c[i][1], c[i][2], 1000 * margs.height>>
                /\ Len(f) = n + 2
                /\ Len(f[1]) = n /\ \A i \in 1..n : f[1][i] = i - 1
                /\ Len(f[2]) = n /\ \A i \in 1..n : f[2][i] = 2 * n - i
                /\ \A i \in 0..(n - 1) :
                      f[3 + i] = <<i, (i + 1) % n, ((i + 1) % n) + n, i + n>>
                /\ FaceIndices(meshes[k]) \subseteq 0..(2 * n - 1)

\* the unit square, given as its four corners and the first again, extruded
\* to 9 m: 8 vertices and 6 faces
C19_Witness ==
    /\ margs.coords = <<<<0, 0>>, <<1, 0>>, <<1, 1>>, <<0, 1>>, <<0, 0>>>>
    /\ Len(meshes) = 1
    /\ meshes[1].kind = "Building"
    /\ Len(meshes[1].vertices) = 8
    /\ Len(meshes[1].faces) = 6
    /\ meshes[1].vertices[8] = <<0, 1, 9000>>

\* C20: the street ribbon of a polyline of m >= 2 points has 2m vertices, a
\* left/right pair per point, and m-1 quads, face i being (2i, 2i+1, 2i+3,
\* 2i+2), also when consecutive points coincide.
C20_StreetRibbon ==
    (gpc = "returned" /\ Len(meshes) > 0 /\ meshes[1].kind = "Street") =>
        LET c == margs.coords
            m == Len(c)
            v == meshes[1].vertices
            f == meshes[1].faces
        IN  m >= 2 =>
              /\ Len(v) = 2 * m
              /\ \A i \in 1..m : v[2 * i - 1].at = c[i] /\ v[2 * i].at = c[i]
              /\ Len(f) = m - 1
              /\ \A i \in 0..(m - 2) : f[i + 1] = <<2 * i, 2 * i + 1, 2 * i + 3, 2 * i + 2>>

\* a street of three points of which the first two coincide: 6 vertices, the
\* first pair not offset from its point, and 2 quads
C20_Witness ==
    /\ margs.coords = <<<<0, 0>>, <<0, 0>>, <<1, 0>>>>
    /\ gpc = "returned"
    /\ Len(meshes) >= 1
    /\ meshes[1].kind = "Street"
    /\ Len(meshes[1].vertices) = 6
    /\ meshes[1].vertices[1].dist = 0
    /\ meshes[1].vertices[5].dist > 0
    /\ Len(meshes[1].faces) = 2

----------------------------------------------------------------------------
(* Properties of the create_* stages, checked under SpecWays *)

\* the number of node ids of a way that resolve to coordinates
ResolvedCount(w) == Cardinality({p \in 1..Len(w.resolved) : w.resolved[p]})

\* the stage that selects a way, the kind of mesh it makes and the least
\* number of coordinates the claim gives it
StageOfKind(k) ==
    CASE k = "building" -> "buildings" [] k = "highway" -> "streets"
      [] k = "water" -> "water" [] OTHER -> "trees"
MeshOfKind(k) ==
    CASE k = "building" -> "Building" [] k = "highway" -> "Street"
      [] k = "water" -> "Water" [] OTHER -> "Tree"
LeastCoords(k) == IF k = "highway" THEN 2 ELSE 3

StageOrder == <<"create_buildings", "buildings", "streets", "water", "trees", "export">>
StageRank(st) == CHOOSE n \in 1..Len(StageOrder) : StageOrder[n] = st

\* the loop of stage st has gone past element i (a stage that raised stopped
\* at element ei of create_buildings)
HasPassed(st, i) ==
    IF gpc = "raised" THEN st = "buildings" /\ ei > i
    ELSE \/ StageRank(gpc) > StageRank(st)
         \/ gpc = st /\ ei > i

HasMesh(i, mk) == \E k \in 1..Len(meshes) : meshes[k].way = i /\ meshes[k].kind = mk

\* C18: a building or water way that resolves to fewer than 3 coordinates, and
\* a highway way that resolves to fewer than 2, is dropped silently: no mesh is
\* made for it, nothing is appended to errors or warnings, and the ways after
\* it are still processed (each gets its mesh when its stage's loop passes it).
C18_ShortWaysDroppedSilently ==
    /\ errors = <<>>
    /\ warnings = <<>>
    /\ \A i \in 1..Len(doc_ways) :
          LET w == doc_ways[i]
          IN  w.kind \in {"building", "highway", "water"} =>
                /\ ResolvedCount(w) < LeastCoords(w.kind) => ~HasMesh(i, MeshOfKind(w.kind))
                /\ HasPassed(StageOfKind(w.kind), i) =>
                      (HasMesh(i, MeshOfKind(w.kind)) <=> ResolvedCount(w) >= LeastCoords(w.kind))
    /\ \A k \in 1..Len(meshes) :
          /\ meshes[k].way \in 1..Len(doc_ways)
          /\ meshes[k].kind \in {"Building", "Street", "Sidewalk", "Water", "Tree"}

\* a building with two resolved nodes of three is followed by a building with
\* three: all four stages have run and the only mesh is the second building's
C18_Witness ==
    /\ gpc = "export"
    /\ Len(doc_ways) = 2
    /\ doc_ways[1] = Way("building", <<TRUE, FALSE, TRUE>>, "absent")
    /\ doc_ways[2] = Way("building", <<TRUE, TRUE, TRUE>>, "absent")
    /\ Len(meshes) = 1
    /\ meshes[1].kind = "Building"
    /\ meshes[1].way = 2
    /\ errors = <<>>
    /\ warnings = <<>>

----------------------------------------------------------------------------
(* Properties of generate() and its entry paths, checked under SpecGenerate *)

\* min_lat >= max_lat or min_lon >= max_lon, in terms of the extents
BoxIsInvalid == lat_dm <= 0 \/ lon_dm <= 0

\* no fetch has begun: no _retry_request was entered, no request is in flight
NoFetchBegun == contacted = <<>> /\ requested = <<>> /\ inflight = {} /\ trace = <<>>

\* C15: a bounding box with min_lat >= max_lat or min_lon >= max_lon is
\* rejected before any fetch begins, on the operator path and on the
\* command-line path: no network request is issued for it.
C15_InvalidBoxRejected == BoxIsInvalid => NoFetchBegun

\* what holds: the operator rejects the box, and nothing is fetched
C15_OperatorRejectsInvalidBox ==
    (BoxIsInvalid /\ entry = "execute") => (NoFetchBegun /\ gpc \in {"entry", "CANCELLED"})

\* the network gives only the outcomes the claim lists: timeouts, connection
\* failures, HTTP statuses, and bodies of any shape
ListedOutcomesOnly ==
    /\ \A k \in 1..Len(mirrors) : \A a \in 1..Len(mirrors[k].net) :
          mirrors[k].net[a].kind # "HTTPErrorNoResponse"
    /\ \A k \in 1..Len(script) : \A a \in 1..Len(script[k].net) :
          script[k].net[a].kind # "HTTPErrorNoResponse"

\* C16: generate() runs to its final report for every combination of network
\* outcomes in the vector and elevation fetches (timeouts, connection failures,
\* any HTTP status, malformed bodies): no network outcome ends the run by an
\* exception.
C16_RunsToFinalReport == ListedOutcomesOnly => gpc # "raised"

\* what holds: generate() is ended by an exception only through a document
\* whose elements are no OSM elements, a building whose height is no number, or
\* the exception that _retry_request lets through in download_osm_data; the
\* faults of transport and HTTP and undecodable bodies never end it
C16_RaisedOnlyByDocumentContent ==
    gpc = "raised" =>
        \/ opc = "raised"
        \/ ElementsRaise
        \/ (ei \in 1..Len(doc_ways) /\ doc_ways[ei].kind = "building"
            /\ HeightRaises(doc_ways[ei].tag))

\* total failure: every mirror and every elevation request timed out, and the
\* run reported with no mesh but the terrain, flat
C16_TotalFailureCompletes ==
    /\ gpc = "done"
    /\ reported.read
    /\ \A k \in 1..NumServers : mirror_fate[k].got = "none"
    /\ osm_result = EmptyDataset
    /\ failed_downloads = TotalPoints(grid_size)
    /\ meshes = <<>>
    /\ \A k \in 1..Len(vertices_z) : vertices_z[k] = 0

IsPrefixOf(a, b) == Len(a) <= Len(b) /\ SubSeq(b, 1, Len(a)) = a

\* the fetch, mesh and export stages of generate() have all finished
StagesFinished == opc = "done" /\ tpc = "terrain_created" /\ gpc = "report"

\* C17: errors and warnings are append-only during a run: every step keeps the
\* entries there are, in their order, and adds only at the end; and the two
\* sequences are read (reported) only after the fetch, mesh and export stages
\* of generate() have finished, as they are at that moment.
C17_AppendOnly ==
    [][/\ IsPrefixOf(errors, errors')
       /\ IsPrefixOf(warnings, warnings')
       /\ reported' # reported =>
             /\ StagesFinished
             /\ reported' = [read |-> TRUE, warnings |-> warnings, errors |-> errors]
             /\ errors' = errors /\ warnings' = warnings
       /\ reported.read => (errors' = errors /\ warnings' = warnings)]_vars

\* every mirror and every elevation request timed out: 3 + 441 errors and 4
\* warnings were appended one by one and then reported
C17_Witness ==
    /\ gpc = "done"
    /\ reported.read
    /\ reported.errors = errors
    /\ reported.warnings = warnings
    /\ Len(errors) = 444
    /\ Len(warnings) = 4
    /\ errors[1].op = Op("OSM data download from server", 1, 0)
    /\ errors[444].op = Op("Terrain elevation point", 20, 20)

----------------------------------------------------------------------------
\* the previous answer is one after which the loop simply goes round: a
\* timeout, a connection failure or a 5xx other than 504
PlainRetryFault(o) ==
    \/ o.kind \in {"Timeout", "ConnectionError"}
    \/ o.kind = "HTTPError" /\ o.status >= 500 /\ o.status # 504

\* the positions of the trace where request_delay is slept
PacingSleeps == {p \in 1..Len(trace) : trace[p] = EvSleep(request_delay_ms)}

\* C23: within one call request_delay is slept exactly once, directly before
\* the first invocation and before no retry; after a timeout, a connection
\* failure or a non-504 5xx the only wait before attempt i > 0 is
\* backoff_factor^(i-1) seconds; no request is issued without a wait since
\* the previous request.
C23_PacingOnceThenBackoff ==
    /\ calls >= 1 => PacingSleeps = {1} /\ trace[2].ev = "request"
    /\ calls = 0 => PacingSleeps = {}
    /\ (rpc = "inflight" /\ attempt > 0 /\ PlainRetryFault(last)) =>
          /\ WaitBeforeThisAttempt = 1000 * Pow(backoff_factor, attempt - 1)
          /\ trace[Len(trace) - 2].ev = "request"
    /\ \A p \in 1..Len(trace) :
          trace[p].ev = "request" => SleptBefore(trace, p - 1) > 0

\* the third attempt is in flight after a 503, two seconds after the answer
C23_Witness ==
    /\ rpc = "inflight"
    /\ attempt = 2
    /\ backoff_factor = 2
    /\ last = Out("HTTPError", 503)
    /\ WaitBeforeThisAttempt = 2000

----------------------------------------------------------------------------
\* the call is still running and the attempt it is at is not beyond the last
StillAttempting == rpc \in {"loop", "inflight"} /\ attempt < max_retries

\* C26: for max_retries >= 1 a call appends exactly one error when it returns
\* None and none when it returns a response; a failed attempt that is followed
\* by another attempt adds no entry; warnings is left as it was.
C26_OneErrorIffNone ==
    max_retries >= 1 =>
        /\ (rpc = "returned" /\ rresult = "none") => Len(errors) = errLen0 + 1
        /\ (rpc = "returned" /\ rresult = "response") => Len(errors) = errLen0
        /\ StillAttempting => Len(errors) = errLen0
        /\ warnings = <<>>

\* None after a 504 on the third and last attempt, the two faults before it
\* having left no entry
C26_Witness ==
    /\ rpc = "returned"
    /\ rresult = "none"
    /\ max_retries = 3
    /\ calls = 3
    /\ last = Out("HTTPError", 504)
    /\ Len(errors) = 1

----------------------------------------------------------------------------
\* C30: an exception of request_func that is no requests exception is not
\* retried: on whichever attempt it occurs the call makes no further
\* invocation, appends one error and returns None, so the call can end after
\* fewer than max_retries attempts.
C30_UnexpectedNotRetried ==
    last.kind = "Exception" =>
        /\ rpc = "returned"
        /\ rresult = "none"
        /\ calls = attempt + 1
        /\ inflight = {}
        /\ Len(errors) = errLen0 + 1
        /\ errors[Len(errors)] = Err(op, "Unexpected error", 0)

\* the exception on the second of three allowed attempts: two invocations
C30_Witness ==
    /\ last.kind = "Exception"
    /\ rpc = "returned"
    /\ max_retries = 3
    /\ calls = 2

----------------------------------------------------------------------------
\* the highway values that are motorway-grade: motorways, trunk roads and
\* their link roads
MotorwayGrade == {"motorway", "trunk", "motorway_link", "trunk_link"}

\* ribbons a and b run along the same points at the same distances, on
\* opposite sides of the path
OppositeSides(a, b) ==
    /\ Len(a.vertices) = Len(b.vertices)
    /\ \A k \in 1..Len(a.vertices) :
          /\ a.vertices[k].at = b.vertices[k].at
          /\ a.vertices[k].dist = b.vertices[k].dist
          /\ a.vertices[k].dir = <<-b.vertices[k].dir[1], -b.vertices[k].dir[2]>>

\* C22: create_street_mesh makes, after the street ribbon, exactly two
\* sidewalk ribbons, one on the left and one on the right, for every highway
\* value that is not motorway-grade, and no sidewalk for a motorway-grade one.
C22_SidewalksBothSides ==
    (gpc = "returned" /\ Len(meshes) > 0 /\ meshes[1].kind = "Street") =>
        IF margs.highway \in MotorwayGrade
        THEN Len(meshes) = 1
        ELSE /\ Len(meshes) = 3
             /\ meshes[2].kind = "Sidewalk"
             /\ meshes[3].kind = "Sidewalk"
             /\ OppositeSides(meshes[2], meshes[3])
             /\ Len(meshes[2].vertices) = 2 * Len(margs.coords)
             /\ Len(margs.coords) >= 2 =>
                   LET p == Perpendicular(Direction2(margs.coords, 1))
                   IN  meshes[2].vertices[1].dir = <<-p[1], -p[2]>>

\* a service road of two points has its street ribbon and a sidewalk on
\* either side, 1.5 m beyond the street's edge
C22_Witness ==
    /\ gpc = "returned"
    /\ margs.highway = "service"
    /\ margs.coords = <<<<0, 0>>, <<1, 0>>>>
    /\ Len(meshes) = 3
    /\ meshes[3].kind = "Sidewalk"
    /\ meshes[3].vertices[1].dir = <<0, 2>>
    /\ meshes[2].vertices[1].dir = <<0, -2>>
    /\ meshes[3].vertices[2].dist = 30

----------------------------------------------------------------------------
\* the trees made for element i, in the order of their making
TreesOfWay(i) == SelectSeq(meshes, LAMBDA m : m.kind = "Tree" /\ m.way = i)

\* the elements 0, 2, 4, ... of a sequence
EveryOther(s) == [k \in 1..((Len(s) + 1) \div 2) |-> s[2 * k - 1]]

\* the positions 0, 2, 4, ... (1-based 1, 3, 5, ...) of the node ids of w
\* whose node id resolves
SampledResolved(w) == {p \in 1..Len(w.resolved) : p % 2 = 1 /\ w.resolved[p]}

\* C24 as stated: a tree_row way gets one tree at each of the positions
\* 0, 2, 4, ... of the sequence of its nodes that resolve.
C24_EveryOtherResolvedNode ==
    \A i \in 1..Len(doc_ways) :
        (doc_ways[i].kind = "tree_row" /\ HasPassed("trees", i)) =>
            LET c == EveryOther(ResolvedCoords(doc_ways[i]))
                t == TreesOfWay(i)
            IN  /\ Len(t) = Len(c)
                /\ \A k \in 1..Len(t) : t[k].vertices[1] = Vertex3(c[k], 0)

\* C24 as amended: a tree_row way gets one tree at each node id that is at
\* position 0, 2, 4, ... of the way's list of node ids and resolves, in the
\* order of the list; a node id at such a position that does not resolve
\* gets no tree and no other node takes its turn.
C24_EveryOtherNodeIdIfResolved ==
    \A i \in 1..Len(doc_ways) :
        (doc_ways[i].kind = "tree_row" /\ HasPassed("trees", i)) =>
            LET t == TreesOfWay(i)
                s == SampledResolved(doc_ways[i])
            IN  /\ Len(t) = Cardinality(s)
                /\ \A p \in s : \E k \in 1..Len(t) : t[k].vertices[1] = Vertex3(NodeAt(p), 0)
                /\ \A k \in 1..Len(t) : \E p \in s : t[k].vertices[1] = Vertex3(NodeAt(p), 0)
                /\ \A k, l \in 1..Len(t) : k < l => t[k].vertices[1] # t[l].vertices[1]
                /\ \A k \in 1..(Len(t) - 1) :
                      \A p, q \in s :
                          (/\ t[k].vertices[1] = Vertex3(NodeAt(p), 0)
                           /\ t[k + 1].vertices[1] = Vertex3(NodeAt(q), 0)) => p < q

\* a row of three node ids of which the first does not resolve: the only tree
\* stands at the third node, the second resolved one
C24_Witness ==
    /\ gpc = "export"
    /\ doc_ways = <<Way("tree_row", <<FALSE, TRUE, TRUE>>, "")>>
    /\ Len(meshes) = 1
    /\ meshes[1].kind = "Tree"
    /\ meshes[1].vertices[1] = Vertex3(NodeAt(3), 0)

----------------------------------------------------------------------------
\* C27: every building mesh and every water mesh that is created has at
\* least 3 polygon vertices: a building mesh at least 3 base vertices (its
\* vertices are the base ring and the top ring), a water mesh at least 3
\* vertices and at least one triangle.
C27_AtLeastThreeVertices ==
    \A k \in 1..Len(meshes) :
        /\ meshes[k].kind = "Building" => Len(meshes[k].vertices) \div 2 >= 3
        /\ meshes[k].kind = "Water" =>
              Len(meshes[k].vertices) >= 3 /\ Len(meshes[k].faces) >= 1

----------------------------------------------------------------------------
\* C28: a building way whose height text is not a number ("10 m") is handled
\* without raising: create_buildings goes on to the ways after it and the
\* stages after create_buildings are reached.
C28_UnparseableHeightHandled ==
    (\E i \in 1..Len(doc_ways) : doc_ways[i].kind = "building" /\ doc_ways[i].tag = "10 m") =>
        gpc # "raised"

\* what the code guarantees: create_buildings raises only at a building way
\* with at least 3 resolved coordinates whose height text is not a number,
\* and then no mesh exists for that way or any element after it
C28_RaisedOnlyByHeightText ==
    gpc = "raised" =>
        /\ ei \in 1..Len(doc_ways)
        /\ doc_ways[ei].kind = "building"
        /\ doc_ways[ei].tag = "10 m"
        /\ ResolvedCount(doc_ways[ei]) >= 3
        /\ \A k \in 1..Len(meshes) : meshes[k].way < ei /\ meshes[k].kind = "Building"

----------------------------------------------------------------------------
\* warning w is in warnings
Warned(w) == \E k \in 1..Len(warnings) : warnings[k] = w

\* the download ended in its except clause
EndedCritical ==
    \E k \in 1..Len(errors) : errors[k].msg = "Critical error during terrain data download"

\* the three statements of C29 about a download that has returned
SummaryAsClaimed ==
    /\ Warned(AllZeroWarning) <=> AllZero(terrain_result, grid_size)
    /\ Warned(FailedWarning(failed_downloads, TotalPoints(grid_size))) <=> failed_downloads > 0
    /\ \A f \in 0..TotalPoints(grid_size) :
          Warned(FailedWarning(f, TotalPoints(grid_size))) => f = failed_downloads
    /\ successful_downloads + failed_downloads = TotalPoints(grid_size)

\* C29: when download_terrain_data has returned, the all-zero warning was
\* appended exactly when every sample of the final grid is 0 (whatever the
\* failure count), the failure-count warning exactly when at least one point
\* failed, and successful + failed = (grid_size + 1)^2.
C29_SummaryWarnings == TerrainReturned => SummaryAsClaimed

\* what the code guarantees: the same whenever the loops ran to their end
C29_HoldsWhenLoopsComplete == (TerrainReturned /\ ~EndedCritical) => SummaryAsClaimed

----------------------------------------------------------------------------
(* Properties of get_elevation_at_xy, checked under SpecElevation *)

\* a call has returned from a generator that holds elevation data
LookedUp == lookup.pc = "returned" /\ stored_grid # EmptyGrid

\* the argument t (x or y, in ticks from the centre) is that of grid line n
AtGridLine(t, n) == t + grid_size * HalfTicksPerCell = n * TicksPerCell

\* a value of v metres in the unit of lookup.z
Metres(v) == 1000 * v * TicksPerCell * TicksPerCell

\* C21 as stated: at an (x, y) that is exactly grid node (i, j), 0 <= i, j <=
\* grid_size, the call returns the value stored at elevation_data[i, j].
C21_NodeReturnsStoredValue ==
    LookedUp =>
        \A i, j \in 0..grid_size :
            (AtGridLine(lookup.y, i) /\ AtGridLine(lookup.x, j)) =>
                lookup.z = Metres(stored_grid[i][j])

\* C21 as amended: at an (x, y) that is exactly grid node (i, j), the last
\* row and column included, the call returns 0.1 times the value stored at
\* elevation_data[i, j]; ten times the returned value is the stored value.
C21_NodeReturnsScaledStoredValue ==
    LookedUp =>
        \A i, j \in 0..grid_size :
            (AtGridLine(lookup.y, i) /\ AtGridLine(lookup.x, j)) =>
                10 * lookup.z = Metres(stored_grid[i][j])

\* the corner node (grid_size, grid_size) of the uneven grid, where 6 is stored
C21_Witness ==
    /\ LookedUp
    /\ AtGridLine(lookup.y, grid_size)
    /\ AtGridLine(lookup.x, grid_size)
    /\ stored_grid[grid_size][grid_size] = 6
    /\ 10 * lookup.z = Metres(6)
    /\ stored_grid[grid_size - 1][grid_size] # 6

\* the samples the call read
SamplesRead == {stored_grid[c[1]][c[2]] : c \in lookup.cells}

\* z is 0.1 times the bilinear combination, with fractions a and b over
\* TicksPerCell, of the samples at the corners lo and hi of a cell
IsBilinearOf(z, lo, hi, a, b) ==
    LET T == TicksPerCell
    IN  10 * z = 1000 * ((T - a) * (T - b) * stored_grid[lo[1]][lo[2]]
                          + a * (T - b) * stored_grid[hi[1]][lo[2]]
                          + (T - a) * b * stored_grid[lo[1]][hi[2]]
                          + a * b * stored_grid[hi[1]][hi[2]])

\* C25: for every (x, y), points outside the box included, the call reads
\* only cells with both indices in 0..grid_size, its interpolation fractions
\* lie in [0, 1], and the result is 0.1 times a convex combination of the four
\* bounding samples, hence between 0.1 * min and 0.1 * max of those samples.
C25_LookupStaysInGrid ==
    LookedUp =>
        /\ lookup.cells \subseteq (0..grid_size) \X (0..grid_size)
        /\ lookup.i_frac \in 0..TicksPerCell
        /\ lookup.j_frac \in 0..TicksPerCell
        /\ \E lo \in lookup.cells, hi \in lookup.cells :
              /\ lookup.cells = {lo, <<hi[1], lo[2]>>, <<lo[1], hi[2]>>, hi}
              /\ hi[1] - lo[1] \in {0, 1}
              /\ hi[2] - lo[2] \in {0, 1}
              /\ IsBilinearOf(lookup.z, lo, hi, lookup.i_frac, lookup.j_frac)
        /\ \A e \in SamplesRead :
              /\ (\A f \in SamplesRead : e <= f) => Metres(e) <= 10 * lookup.z
              /\ (\A f \in SamplesRead : e >= f) => Metres(e) >= 10 * lookup.z

\* a point beyond the corner of the box, on the slope: the call read the
\* corner cell only up to index grid_size and returned the corner's value
C25_Witness ==
    /\ LookedUp
    /\ lookup.x > grid_size * HalfTicksPerCell
    /\ lookup.y > grid_size * HalfTicksPerCell
    /\ stored_grid[0][1] = -3
    /\ <<grid_size, grid_size>> \in lookup.cells
    /\ lookup.i_frac = TicksPerCell
    /\ 10 * lookup.z = Metres(stored_grid[grid_size][grid_size])

====
